---- MODULE Spec2Model ----
(***************************************************************************)
(* Streaming session client and autonomous interrupt-resolution engine of  *)
(* the lawyer-workbench E2E suite.                                         *)
(*                                                                         *)
(*   - Card Resolution Engine : auto_answer_card (flow_runner.py)          *)
(*   - Workflow Driver Loop   : WorkbenchFlow.run_until / step             *)
(*   - WebSocket transport    : ApiClient._post_ws (api_client.py)         *)
(*                                                                         *)
(* Python values are modelled as tagged JSON values.  A Python string is a *)
(* sequence of tokens; the tokens " " (white space) and "." (dot) are the  *)
(* only characters the code looks at individually (strip, dot-prefix).     *)
(***************************************************************************)
EXTENDS Integers, Sequences, FiniteSets, TLC

(***************************************************************************)
(* Python / JSON values                                                    *)
(***************************************************************************)
PyNone == [t |-> "none", b |-> FALSE, n |-> 0, s |-> <<>>, l |-> <<>>, d |-> <<>>]

PyBool(x) == [PyNone EXCEPT !.t = "bool", !.b = x]

PyInt(x) == [PyNone EXCEPT !.t = "int", !.n = x]

PyStr(x) == [PyNone EXCEPT !.t = "str", !.s = x]

PyList(x) == [PyNone EXCEPT !.t = "list", !.l = x]

PyDict(x) == [PyNone EXCEPT !.t = "dict", !.d = x]

\* a one-token string literal
Lit(x) == PyStr(<<x>>)

\* one key/value item of an insertion-ordered dict
Item(key, val) == [k |-> <<key>>, v |-> val]

\* bool(v)
Truthy(v) ==
    CASE v.t = "none" -> FALSE
      [] v.t = "bool" -> v.b
      [] v.t = "int"  -> v.n # 0
      [] v.t = "str"  -> v.s # <<>>
      [] v.t = "list" -> v.l # <<>>
      [] v.t = "dict" -> v.d # <<>>

\* x or y
PyOr(x, y) == IF Truthy(x) THEN x ELSE y

RECURSIVE LStrip(_)
LStrip(s) == IF s # <<>> /\ Head(s) = " " THEN LStrip(Tail(s)) ELSE s

RECURSIVE RStrip(_)
RStrip(s) ==
    IF s # <<>> /\ s[Len(s)] = " " THEN RStrip(SubSeq(s, 1, Len(s) - 1)) ELSE s

\* s.strip()
Strip(s) == RStrip(LStrip(s))

LowerTok(x) ==
    CASE x = "Boolean" -> "boolean"
      [] x = "SELECT"  -> "select"
      [] OTHER -> x

\* s.lower()
Lower(s) == [i \in 1..Len(s) |-> LowerTok(s[i])]

Digits == <<"0", "1", "2", "3", "4", "5", "6", "7", "8", "9">>

RECURSIVE IntStr(_)
IntStr(n) ==
    IF n < 10 THEN <<Digits[n + 1]>> ELSE IntStr(n \div 10) \o <<Digits[(n % 10) + 1]>>

\* str(v) as a token sequence
StrOf(v) ==
    CASE v.t = "none" -> <<"None">>
      [] v.t = "bool" -> IF v.b THEN <<"True">> ELSE <<"False">>
      [] v.t = "int"  -> IntStr(v.n)
      [] v.t = "str"  -> v.s
      [] v.t = "list" -> IF v.l = <<>> THEN <<"[]">> ELSE <<"[...]">>
      [] v.t = "dict" -> IF v.d = <<>> THEN <<"{}">> ELSE <<"{...}">>

\* key in d   (d an insertion-ordered dict value)
HasKey(v, key) == \E i \in 1..Len(v.d) : v.d[i].k = key

\* d[key]
Index(v, key) == v.d[CHOOSE i \in 1..Len(v.d) : v.d[i].k = key].v

\* d.get(key)
Get(v, key) == IF HasKey(v, <<key>>) THEN Index(v, <<key>>) ELSE PyNone

\* s.startswith(p)
StartsWith(s, p) == Len(p) <= Len(s) /\ SubSeq(s, 1, Len(p)) = p

(***************************************************************************)
(* Card Resolution Engine  (tests/lawyer_workbench/_support/flow_runner.py)*)
(***************************************************************************)
\* an option that is a dict, flagged recommended and carrying a value
IsRecommendedOption(opt) ==
    /\ opt.t = "dict"
    /\ Get(opt, "recommended") = PyBool(TRUE)
    /\ Get(opt, "value") # PyNone

\* an option that is a dict carrying a value
IsValuedOption(opt) == opt.t = "dict" /\ Get(opt, "value") # PyNone

\* value of the first recommended option of a list, else None
FirstRecommended_none(options) == PyNone

FirstRecommended(options) ==
    IF \E i \in 1..Len(options) : IsRecommendedOption(options[i])
    THEN Get(options[CHOOSE i \in 1..Len(options) :
                        /\ IsRecommendedOption(options[i])
                        /\ \A j \in 1..(i - 1) : ~IsRecommendedOption(options[j])], "value")
    ELSE PyNone

\* options: the items of a Python list
_pick_recommended_or_first(options) ==
    IF options = <<>> THEN PyNone
    ELSE IF FirstRecommended(options) # PyNone THEN FirstRecommended(options)
    ELSE IF \E i \in 1..Len(options) : IsValuedOption(options[i])
    THEN Get(options[CHOOSE i \in 1..Len(options) :
                        /\ IsValuedOption(options[i])
                        /\ \A j \in 1..(i - 1) : ~IsValuedOption(options[j])], "value")
    ELSE PyNone

\* does the override item at position i satisfy field_key through a nested map
NestedHit(field_key, overrides, i) ==
    LET k == overrides.d[i].k
        v == overrides.d[i].v
        prefix == k \o <<".">>
        sub == SubSeq(field_key, Len(prefix) + 1, Len(field_key))
    IN /\ k # <<>>
       /\ v.t = "dict"
       /\ StartsWith(field_key, prefix)
       /\ sub # <<>>
       /\ HasKey(v, sub)

_resolve_override_value(field_key, overrides) ==
    IF overrides.t # "dict" \/ overrides.d = <<>> THEN PyNone
    ELSE IF HasKey(overrides, field_key) THEN Index(overrides, field_key)
    ELSE IF \E i \in 1..Len(overrides.d) : NestedHit(field_key, overrides, i)
    THEN LET i == CHOOSE i \in 1..Len(overrides.d) :
                     /\ NestedHit(field_key, overrides, i)
                     /\ \A j \in 1..(i - 1) : ~NestedHit(field_key, overrides, j)
             prefix == overrides.d[i].k \o <<".">>
         IN Index(overrides.d[i].v, SubSeq(field_key, Len(prefix) + 1, Len(field_key)))
    ELSE PyNone

\* default is not None and not (blank str or empty list or empty dict)
HasDefault_never(default) == FALSE

HasDefault(default) ==
    /\ default # PyNone
    /\ ~ \/ (default.t = "str" /\ Strip(default.s) = <<>>)
         \/ (default.t = "list" /\ default.l = <<>>)
         \/ (default.t = "dict" /\ default.d = <<>>)

\* [str(x).strip() for x in (uploaded_file_ids or []) if str(x).strip()]
NormalizeFileIds(uploaded_file_ids) ==
    LET src == PyOr(uploaded_file_ids, PyList(<<>>)).l
        stripped == [i \in 1..Len(src) |-> PyStr(Strip(StrOf(src[i])))]
        NonBlank(x) == x.s # <<>>
    IN SelectSeq(stripped, NonBlank)

\* q.get("options") if isinstance(q.get("options"), list) else []
OptionsOf(q) == IF Get(q, "options").t = "list" THEN Get(q, "options").l ELSE <<>>

FieldKeyOf(q) == Strip(StrOf(PyOr(Get(q, "field_key"), PyStr(<<>>))))

InputTypeOf(q) ==
    Lower(Strip(StrOf(PyOr(PyOr(Get(q, "input_type"), Get(q, "question_type")), PyStr(<<>>)))))

\* the value chosen by the input-type branches, lines 126-171
HeuristicValue(q, fk, it, required, uploaded, skill_id) ==
    LET default == Get(q, "default")
        has_default == HasDefault(default)
        options == OptionsOf(q)
    IN
    IF it \in {<<"boolean">>, <<"bool">>}
    THEN IF has_default THEN default ELSE PyBool(TRUE)
    ELSE IF it \in {<<"select">>, <<"single_select">>, <<"single_choice">>}
    THEN IF has_default THEN default ELSE _pick_recommended_or_first(options)
    ELSE IF it \in {<<"multi_select">>, <<"multiple_select">>}
    THEN IF has_default THEN default
         ELSE LET picked == IF FirstRecommended(options) # PyNone
                            THEN FirstRecommended(options)
                            ELSE _pick_recommended_or_first(options)
              IN IF picked # PyNone THEN PyList(<<picked>>) ELSE PyList(<<>>)
    ELSE IF it \in {<<"file_ids">>, <<"file_id">>} \/ fk = <<"attachment_file_ids">>
    THEN IF fk = <<"attachment_file_ids">>
         THEN IF has_default THEN default
              ELSE IF uploaded # <<>> THEN PyList(uploaded)
              ELSE PyList(<<>>)
         ELSE IF has_default THEN default
              ELSE IF uploaded # <<>> /\ (required \/ skill_id = <<"system:kickoff">>)
              THEN PyList(uploaded)
              ELSE IF required THEN PyList(<<>>) ELSE PyNone
    ELSE IF fk = <<"profile", ".", "summary">> THEN Lit("summary-sentence")
    ELSE IF fk = <<"profile", ".", "facts">> THEN Lit("facts-sentence")
    ELSE IF fk = <<"profile", ".", "claims">> THEN Lit("claims-sentence")
    ELSE IF has_default THEN default
    ELSE IF required THEN Lit("confirmed") ELSE PyNone

Answer(fk, value) == PyDict(<<Item("field_key", PyStr(fk)), Item("value", value)>>)

\* line 175: if value is None and not required: continue
OmitAnswer_never(value, required) == FALSE

OmitAnswer(value, required) == value = PyNone /\ ~required

\* the answers (none or one) one element of card.questions contributes
AnswersOfQuestion(q, overrides, uploaded, skill_id) ==
    IF q.t # "dict" THEN <<>>
    ELSE LET fk == FieldKeyOf(q)
             it == InputTypeOf(q)
             required == Truthy(Get(q, "required"))
             override_value == _resolve_override_value(fk, overrides)
             value == HeuristicValue(q, fk, it, required, uploaded, skill_id)
         IN IF fk = <<>> THEN <<>>
            ELSE IF override_value # PyNone THEN <<Answer(fk, override_value)>>
            ELSE IF OmitAnswer(value, required) THEN <<>>
            ELSE <<Answer(fk, value)>>

RECURSIVE AnswerLoop(_, _, _, _)
AnswerLoop(questions, overrides, uploaded, skill_id) ==
    IF questions = <<>> THEN <<>>
    ELSE AnswersOfQuestion(Head(questions), overrides, uploaded, skill_id)
         \o AnswerLoop(Tail(questions), overrides, uploaded, skill_id)

auto_answer_card(card, overrides, uploaded_file_ids) ==
    LET ov == PyOr(overrides, PyDict(<<>>))
        uploaded == NormalizeFileIds(uploaded_file_ids)
        skill_id == Strip(StrOf(PyOr(Get(card, "skill_id"), PyStr(<<>>))))
        questions == IF Get(card, "questions").t = "list" THEN Get(card, "questions").l ELSE <<>>
    IN PyDict(<<Item("answers", PyList(AnswerLoop(questions, ov, uploaded, skill_id)))>>)

RECURSIVE QuestionSigs(_)
QuestionSigs(qs) ==
    IF qs = <<>> THEN <<>>
    ELSE (IF Head(qs).t = "dict" /\ FieldKeyOf(Head(qs)) # <<>>
          THEN <<FieldKeyOf(Head(qs)) \o <<"|">> \o InputTypeOf(Head(qs))>>
          ELSE <<>>) \o QuestionSigs(Tail(qs))

\* sha256(json.dumps(...))[:16], modelled as the canonical tuple it hashes
card_signature(card) ==
    LET CleanStr(key) == Strip(StrOf(PyOr(Get(card, key), PyStr(<<>>))))
        qs == IF Get(card, "questions").t = "list" THEN Get(card, "questions").l ELSE <<>>
    IN <<CleanStr("skill_id"), CleanStr("task_key"), CleanStr("review_type"), QuestionSigs(qs)>>

(***************************************************************************)
(* State                                                                   *)
(***************************************************************************)
VARIABLES
    \* --- one call of auto_answer_card ---
    c_pc,                    \* "ready" | "resolved" | "repeated" | "off"
    c_card,                  \* the card argument
    c_overrides,             \* the overrides argument
    c_uploaded,              \* the uploaded_file_ids argument
    c_response,              \* the returned user_response
    c_again,                 \* the user_response a second call with the same arguments returned
    \* --- one call of WorkbenchFlow.run_until ---
    f_pc,                    \* position inside run_until / step
    f_max_steps,             \* the max_steps argument
    f_predicate,             \* which caller predicate is used
    f_i,                     \* loop variable i
    f_steps,                 \* calls of step() made so far
    f_pred_log,              \* results of the predicate evaluations, in order
    f_card,                  \* card returned by get_pending_card in this step
    f_matter_id,             \* WorkbenchFlow.matter_id (0 = None)
    f_seen_cards,            \* WorkbenchFlow.seen_cards
    f_seen_card_signatures,  \* WorkbenchFlow.seen_card_signatures
    f_seen_sse,              \* WorkbenchFlow.seen_sse
    f_last_sse,              \* WorkbenchFlow.last_sse
    f_uploaded_file_ids,     \* WorkbenchFlow.uploaded_file_ids
    f_overrides,             \* WorkbenchFlow.overrides
    f_sent,                  \* chat/resume messages sent to the session, in order
    f_in_flight,             \* writes sent and not yet returned
    f_trace,                 \* the calls run_until has made so far, in order, with the iteration
    r_pending,               \* remote: index of the pending card (0 = none)
    r_matter,                \* remote: matter bound to the session (0 = none)
    r_done,                  \* remote: the caller's target condition holds
    \* --- one call of ApiClient._post_ws ---
    w_pc,                    \* position inside _post_ws
    w_max_attempts,          \* max_attempts
    w_attempt,               \* loop variable attempt
    w_events,                \* the local list events
    w_output,                \* the output of the returned result
    w_last_exc,              \* last_exc ("" = None)
    w_wire,                  \* messages the client sent during this call, in order
    w_received,              \* frames received after the real message, this connection
    w_prior,                 \* frames received after the real message, earlier connections
    w_outcomes,              \* how each finished attempt ended, in order
    w_seq,                   \* frames the server has sent after a real message, this call
    w_auth_log,              \* what answered each auth frame, per attempt
    w_exc_log,               \* the exception each failed attempt raised
    w_beat,                  \* parity of the ping frames dropped after the frame log filled up
    q_pc,                    \* position of a running _request call
    q_method,                \* its method argument
    q_client,                \* whether self._client is set
    q_get_retries,           \* E2E_HTTP_GET_RETRIES as parsed
    q_max_attempts,          \* max_attempts
    q_attempt,               \* attempt
    q_last_exc,              \* last_exc
    q_exc,                   \* the exception the call raised
    q_result,                \* whether a decoded body was returned
    q_log,                   \* what each client.request(...) call met, in order
    q_path,                  \* the path argument
    q_internal_api_key,      \* self.internal_api_key, from INTERNAL_API_KEY
    q_session,               \* self.token, user_id, organization_id, is_superuser
    q_headers,               \* the headers the request is sent with
    l_pc,                    \* position of a running login call
    l_client,                \* whether self._client is set
    l_max_attempts,          \* E2E_HTTP_LOGIN_RETRIES as parsed
    l_attempt,               \* attempt
    l_j,                     \* j
    l_last_exc,              \* last_exc
    l_exc,                   \* the exception the call raised
    l_token,                 \* whether self.token is set
    l_identity,              \* whether user_id / organization_id / is_superuser are set
    l_posts,                 \* what each login POST met, in order
    l_me_log,                \* what each get_me() call met, with the attempt it ran in
    \* --- the cause-recommendation loop of the litigation test ---
    t_pc,                    \* "head" | "acquire" | "handle" | "resume" | "done" |
                             \* "assertion_error" | "raised" | "off"
    t_iter,                  \* the pass of for _ in range(30) being made
    t_next_card,             \* next_card: 0 for None, else an index of TestCards
    t_pending,               \* pending: 0 for None, else an index of TestCards
    t_counts,                \* card_sig_counts
    t_resumed,               \* the number of resumes sent in the loop, per signature
    t_matter_id,             \* whether matter_id is set
    t_cause_card,            \* cause_card: 0 for None, else an index of TestCards
    \* --- one call of validate_task_events / assert_task_lifecycle ---
    s_pc,                    \* "ready" | "returned" | "assertion_error" | "off"
    s_sse,                   \* the sse argument
    s_min_starts,            \* the min_starts argument
    s_called,                \* the function that was called
    \* --- one call of consume_pending_cards ---
    k_pc,                    \* "loop" | "resume_wait" | "returned" | "raised" | "off"
    k_max_cards,             \* max_cards
    k_uploaded,              \* uploaded_file_ids
    k_consumed,              \* consumed
    k_pending,               \* the latest get_pending_card response, unwrapped
    k_payload,               \* the payload of the resume being awaited
    k_sent,                  \* the resumes sent, in order: card and payload
    k_unresolved,            \* the second element of the returned pair
    k_stop                   \* the statement the call stopped at

cardVars == <<c_pc, c_card, c_overrides, c_uploaded, c_response, c_again>>

flowVars == <<f_pc, f_max_steps, f_predicate, f_i, f_steps, f_pred_log, f_card, f_matter_id,
              f_seen_cards, f_seen_card_signatures, f_seen_sse, f_last_sse,
              f_uploaded_file_ids, f_overrides, f_sent, f_in_flight, f_trace,
              r_pending, r_matter, r_done>>

wsVars == <<w_pc, w_max_attempts, w_attempt, w_events, w_output, w_last_exc, w_wire,
            w_received, w_prior, w_outcomes, w_seq, w_auth_log, w_exc_log, w_beat>>

reqVars == <<q_pc, q_method, q_client, q_get_retries, q_max_attempts, q_attempt, q_last_exc,
             q_exc, q_result, q_log, q_path, q_internal_api_key, q_session, q_headers>>

loginVars == <<l_pc, l_client, l_max_attempts, l_attempt, l_j, l_last_exc, l_exc, l_token,
               l_identity, l_posts, l_me_log>>

testVars == <<t_pc, t_iter, t_next_card, t_pending, t_counts, t_resumed, t_matter_id,
              t_cause_card>>

sseVars == <<s_pc, s_sse, s_min_starts, s_called>>

consumeVars == <<k_pc, k_max_cards, k_uploaded, k_consumed, k_pending, k_payload, k_sent,
                 k_unresolved, k_stop>>

vars == <<cardVars, flowVars, wsVars, reqVars, loginVars, testVars, sseVars, consumeVars>>

(***************************************************************************)
(* Inputs of the card resolution engine                                    *)
(***************************************************************************)
Question(fk, it, req, def, opts) ==
    PyDict(<<Item("field_key", fk), Item("input_type", it), Item("required", req),
             Item("default", def), Item("options", opts)>>)

Option(value, recommended) ==
    PyDict(<<Item("value", value), Item("recommended", recommended)>>)

Card(skill, task, review, qs) ==
    PyDict(<<Item("skill_id", skill), Item("task_key", task), Item("review_type", review),
             Item("questions", PyList(qs))>>)

FieldKeyInputs ==
    { Lit("confirmed"), Lit("choice"), Lit("attachment_file_ids"), Lit("evidence_file_ids"),
      PyStr(<<"profile", ".", "facts">>), PyStr(<<"profile", ".", "plaintiff", ".", "name">>),
      PyStr(<<" ">>) }

InputTypeInputs ==
    { Lit("boolean"), Lit("SELECT"), Lit("multi_select"), Lit("file_ids"), Lit("text") }

DefaultInputs == { PyNone, Lit("dflt"), PyStr(<<" ">>), PyList(<<>>) }

OptionInputs ==
    { PyNone,
      PyList(<<>>),
      PyList(<<Option(Lit("a"), PyBool(FALSE)), Option(Lit("b"), PyBool(TRUE))>>),
      PyList(<<Option(PyNone, PyBool(TRUE)), Option(Lit("c"), PyNone)>>),
      PyList(<<Option(Lit("a"), PyBool(FALSE)), Option(Lit("d"), PyNone)>>) }

QuestionInputs ==
    { Question(fk, it, PyBool(req), def, opts) :
        fk \in FieldKeyInputs, it \in InputTypeInputs, req \in BOOLEAN,
        def \in DefaultInputs, opts \in OptionInputs }

\* a second element of card.questions: a boolean question or a non-dict entry
FillerInputs ==
    { Question(Lit("agree"), Lit("bool"), PyBool(TRUE), PyNone, PyNone),
      Question(Lit("agree"), Lit("bool"), PyBool(TRUE), PyBool(FALSE), PyNone),
      Lit("junk") }

CardInputs ==
    { Card(Lit("intake"), Lit("t1"), Lit("clarify"), <<q>>) : q \in QuestionInputs }
    \cup { Card(Lit("system:kickoff"), Lit("t0"), PyNone, <<x, q>>) :
             x \in FillerInputs, q \in QuestionInputs }

OverrideInputs ==
    { PyNone,
      PyDict(<<Item("choice", Lit("ov"))>>),
      PyDict(<<Item("choice", PyStr(<<>>)), Item("confirmed", PyList(<<>>))>>),
      PyDict(<<Item("profile", PyDict(<<Item("facts", Lit("nested"))>>)),
               [k |-> <<"profile", ".", "plaintiff">>, v |-> PyDict(<<Item("name", Lit("X"))>>)]>>),
      PyDict(<<Item("profile", PyDict(<<Item("plaintiff", PyDict(<<Item("name", Lit("X"))>>))>>))>>),
      PyDict(<<Item("profile", PyDict(<<Item("facts", Lit("nested"))>>)),
               [k |-> <<"profile", ".", "facts">>, v |-> Lit("exact")],
               Item("choice", PyNone)>>),
      PyDict(<<[k |-> <<"profile">>,
                v |-> PyDict(<<[k |-> <<"plaintiff", ".", "name">>, v |-> Lit("A")]>>)],
               [k |-> <<"profile", ".", "plaintiff">>, v |-> PyDict(<<Item("name", Lit("X"))>>)]>>) }

UploadInputs == { PyNone, PyList(<<Lit("f1"), Lit("f2")>>), PyList(<<PyStr(<<" ">>)>>) }

\* the permutations of 1..n
Perms(n) == {p \in [1..n -> 1..n] : \A i, j \in 1..n : i # j => p[i] # p[j]}

\* line 76: the orders in which overrides.items() can yield the items of a dict; a dict
\* iterates in insertion order
ItemsOf_any_order(d) == {[i \in 1..Len(d.d) |-> d.d[p[i]]] : p \in Perms(Len(d.d))}

ItemsOf(d) == {d.d}

\* the override argument as one call can come to iterate it
AsIterated(overrides) ==
    IF overrides.t # "dict" THEN {overrides} ELSE {PyDict(items) : items \in ItemsOf(overrides)}

\* lines 97-98 rebind the local names overrides and uploaded_file_ids; the caller's card,
\* override map and list are the same objects with the same content after the call
ArgumentsAfterCall_rebound(card, overrides, uploaded_file_ids) ==
    <<card, PyOr(overrides, PyDict(<<>>)), PyList(NormalizeFileIds(uploaded_file_ids))>>

ArgumentsAfterCall(card, overrides, uploaded_file_ids) == <<card, overrides, uploaded_file_ids>>

\* resume_card line 241: user_response = auto_answer_card(card, overrides=..., uploaded_file_ids=...)
ResolveCard ==
    /\ c_pc = "ready"
    /\ \E ov \in AsIterated(c_overrides) :
         c_response' = auto_answer_card(c_card, ov, c_uploaded)
    /\ c_card' = ArgumentsAfterCall(c_card, c_overrides, c_uploaded)[1]
    /\ c_overrides' = ArgumentsAfterCall(c_card, c_overrides, c_uploaded)[2]
    /\ c_uploaded' = ArgumentsAfterCall(c_card, c_overrides, c_uploaded)[3]
    /\ c_pc' = "resolved"
    /\ UNCHANGED c_again
    /\ UNCHANGED <<flowVars, wsVars, reqVars, loginVars,
                   testVars, sseVars, consumeVars>>

\* the same card is answered once more with the same arguments (run_until resumes a card
\* that is still pending on the next step)
ResolveCardAgain ==
    /\ c_pc = "resolved"
    /\ \E ov \in AsIterated(c_overrides) :
         c_again' = auto_answer_card(c_card, ov, c_uploaded)
    /\ c_card' = ArgumentsAfterCall(c_card, c_overrides, c_uploaded)[1]
    /\ c_overrides' = ArgumentsAfterCall(c_card, c_overrides, c_uploaded)[2]
    /\ c_uploaded' = ArgumentsAfterCall(c_card, c_overrides, c_uploaded)[3]
    /\ c_pc' = "repeated"
    /\ UNCHANGED c_response
    /\ UNCHANGED <<flowVars, wsVars, reqVars, loginVars,
                   testVars, sseVars, consumeVars>>

(***************************************************************************)
(* Workflow Driver Loop  (WorkbenchFlow, flow_runner.py)                   *)
(***************************************************************************)
\* largest max_steps argument explored
MaxSteps == 4

\* matter ids the remote can bind a session to
NumMatters == 1

_NUDGE_TEXT == Lit("continue")

\* the cards the remote workflow can block on
FlowCards ==
    << Card(Lit("system:kickoff"), Lit("t0"), PyNone,
            <<Question(Lit("attachment_file_ids"), Lit("file_ids"), PyBool(FALSE), PyNone, PyNone),
              Question(Lit("confirmed"), Lit("boolean"), PyBool(TRUE), PyNone, PyNone)>>),
       Card(Lit("intake"), Lit("t1"), Lit("clarify"),
            <<Question(Lit("choice"), Lit("select"), PyBool(TRUE), PyNone, PyList(<<>>))>>) >>

\* a chat/resume result; n = 0 stands for None
NoSse == [n |-> 0, user_message |-> FALSE]

\* predicate(self): the caller's target condition
Predicate ==
    IF f_predicate = "matter_bound" THEN f_matter_id # 0 ELSE r_done

\* range(1, max_steps + 1) running one iteration too many
LoopExhausted_one_more(i, max_steps) == i > max_steps + 1

\* for i in range(1, max_steps + 1): the range is used up, line 276
LoopExhausted(i, max_steps) == i > max_steps

\* one call made in iteration i of run_until
Call(op, i) == [op |-> op, i |-> i]

\* lines 234, 242, 250 (and 262, 264, 284): the write is awaited, the caller goes on only
\* when it has returned or raised
Await_not(waiting) == "loop"

Await(waiting) == waiting

\* refresh overwriting the binding with whatever the session response carries
RefreshedMatterId_overwrite(sess_matter_id, matter_id) == sess_matter_id

\* refresh lines 217-218: the binding is assigned only when the response has a matter_id
RefreshedMatterId(sess_matter_id, matter_id) ==
    IF sess_matter_id # 0 THEN sess_matter_id ELSE matter_id

\* step taking the resume branch whatever the query returned
HasCard_always(card) == TRUE

\* step line 260: if card
HasCard(card) == Truthy(card)

\* a result that is kept as last_sse but not appended
RecordSse_dropped(seen_sse, sse) == seen_sse

\* lines 238, 246, 253: self.seen_sse.append(sse)
RecordSse(seen_sse, sse) == Append(seen_sse, sse)

\* run_until lines 276-283 and 287: loop head, predicate, exhaustion
RunUntilLoopHead ==
    /\ f_pc = "loop"
    /\ IF LoopExhausted(f_i, f_max_steps)
       THEN /\ f_pc' = "assertion_error"
            /\ UNCHANGED <<f_steps, f_pred_log, f_trace>>
       ELSE /\ f_pred_log' = Append(f_pred_log, Predicate)
            /\ f_trace' = Append(f_trace, Call("predicate", f_i))
            /\ IF Predicate
               THEN f_pc' = "returned" /\ UNCHANGED f_steps
               ELSE f_pc' = "refresh" /\ f_steps' = f_steps + 1
    /\ UNCHANGED <<f_max_steps, f_predicate, f_i, f_card, f_matter_id, f_seen_cards,
                   f_seen_card_signatures, f_seen_sse, f_last_sse, f_uploaded_file_ids,
                   f_overrides, f_sent, f_in_flight, r_pending, r_matter, r_done>>
    /\ UNCHANGED <<cardVars, wsVars, reqVars, loginVars,
                   testVars, sseVars, consumeVars>>

\* step line 258 -> refresh lines 215-218; the GET may raise
Refresh ==
    /\ f_pc = "refresh"
    /\ f_trace' = Append(f_trace, Call("refresh", f_i))
    /\ \E ok \in BOOLEAN :
         IF ok
         THEN /\ f_matter_id' = RefreshedMatterId(r_matter, f_matter_id)
              /\ f_pc' = "pending"
         ELSE /\ f_pc' = "raised"
              /\ UNCHANGED f_matter_id
    /\ UNCHANGED <<f_max_steps, f_predicate, f_i, f_steps, f_pred_log, f_card, f_seen_cards,
                   f_seen_card_signatures, f_seen_sse, f_last_sse, f_uploaded_file_ids,
                   f_overrides, f_sent, f_in_flight, r_pending, r_matter, r_done>>
    /\ UNCHANGED <<cardVars, wsVars, reqVars, loginVars,
                   testVars, sseVars, consumeVars>>

\* step line 259 -> get_pending_card lines 220-223; the GET may raise
GetPendingCard ==
    /\ f_pc = "pending"
    /\ f_trace' = Append(f_trace, Call("poll", f_i))
    /\ \E ok \in BOOLEAN :
         IF ok
         THEN /\ \E resp \in (IF r_pending = 0 THEN {PyNone, PyDict(<<>>)}
                              ELSE {FlowCards[r_pending]}) :
                   f_card' = IF resp.t = "dict" /\ Truthy(resp) THEN resp ELSE PyNone
              /\ f_pc' = "write"
         ELSE /\ f_pc' = "raised"
              /\ UNCHANGED f_card
    /\ UNCHANGED <<f_max_steps, f_predicate, f_i, f_steps, f_pred_log, f_matter_id,
                   f_seen_cards, f_seen_card_signatures, f_seen_sse, f_last_sse,
                   f_uploaded_file_ids, f_overrides, f_sent, f_in_flight,
                   r_pending, r_matter, r_done>>
    /\ UNCHANGED <<cardVars, wsVars, reqVars, loginVars,
                   testVars, sseVars, consumeVars>>

\* step lines 260-262 -> resume_card lines 227-234 / 241-242, up to the resume being sent
ResumeCardSend ==
    /\ f_pc = "write"
    /\ HasCard(f_card)
    /\ f_seen_cards' = Append(f_seen_cards, f_card)
    /\ f_seen_card_signatures' = Append(f_seen_card_signatures, card_signature(f_card))
    /\ f_sent' = Append(f_sent,
                        [type |-> "resume",
                         body |-> auto_answer_card(f_card, f_overrides, f_uploaded_file_ids),
                         card |-> f_card])
    /\ f_overrides' = ArgumentsAfterCall(f_card, f_overrides, f_uploaded_file_ids)[2]
    /\ f_uploaded_file_ids' = ArgumentsAfterCall(f_card, f_overrides, f_uploaded_file_ids)[3]
    /\ f_in_flight' = f_in_flight + 1
    /\ f_trace' = Append(f_trace, Call("resume", f_i))
    /\ f_pc' = Await("resume_wait")
    /\ UNCHANGED <<f_max_steps, f_predicate, f_i, f_steps, f_pred_log, f_card, f_matter_id,
                   f_seen_sse, f_last_sse, r_pending, r_matter, r_done>>
    /\ UNCHANGED <<cardVars, wsVars, reqVars, loginVars,
                   testVars, sseVars, consumeVars>>

\* step lines 263-264 -> nudge line 250, up to the chat being sent
NudgeSend ==
    /\ f_pc = "write"
    /\ ~HasCard(f_card)
    /\ f_sent' = Append(f_sent, [type |-> "chat", body |-> _NUDGE_TEXT, card |-> PyNone])
    /\ f_in_flight' = f_in_flight + 1
    /\ f_trace' = Append(f_trace, Call("chat", f_i))
    /\ f_pc' = Await("nudge_wait")
    /\ UNCHANGED <<f_max_steps, f_predicate, f_i, f_steps, f_pred_log, f_card, f_matter_id,
                   f_seen_cards, f_seen_card_signatures, f_seen_sse, f_last_sse,
                   f_uploaded_file_ids, f_overrides, r_pending, r_matter, r_done>>
    /\ UNCHANGED <<cardVars, wsVars, reqVars, loginVars,
                   testVars, sseVars, consumeVars>>

\* the remote workflow reacts to a write: next interrupt, binding, target condition
RemoteAdvance ==
    /\ r_pending' \in 0..Len(FlowCards)
    /\ r_matter' \in 0..NumMatters
    /\ r_done' \in BOOLEAN

\* raises AssertionError unless the result carries a user_message event
assert_has_user_message(sse) == sse.user_message

\* resume_card lines 234-239 / 242-247: the resume returns or raises; back in run_until, i advances
ResumeCardReturn ==
    /\ f_pc = "resume_wait"
    /\ RemoteAdvance
    /\ f_in_flight' = f_in_flight - 1
    /\ f_trace' = Append(f_trace, Call("done", f_i))
    /\ \E raised \in BOOLEAN, um \in BOOLEAN :
         LET sse == [n |-> Len(f_sent), user_message |-> um]
         IN IF raised \/ ~assert_has_user_message(sse)
            THEN /\ f_pc' = "raised"
                 /\ UNCHANGED <<f_last_sse, f_seen_sse, f_i>>
            ELSE /\ f_last_sse' = sse
                 /\ f_seen_sse' = RecordSse(f_seen_sse, sse)
                 /\ f_i' = f_i + 1
                 /\ f_pc' = "loop"
    /\ UNCHANGED <<f_max_steps, f_predicate, f_steps, f_pred_log, f_card, f_matter_id,
                   f_seen_cards, f_seen_card_signatures, f_uploaded_file_ids, f_overrides,
                   f_sent>>
    /\ UNCHANGED <<cardVars, wsVars, reqVars, loginVars,
                   testVars, sseVars, consumeVars>>

\* nudge lines 250-254: the chat returns or raises; back in run_until, i advances
NudgeReturn ==
    /\ f_pc = "nudge_wait"
    /\ RemoteAdvance
    /\ f_in_flight' = f_in_flight - 1
    /\ f_trace' = Append(f_trace, Call("done", f_i))
    /\ \E raised \in BOOLEAN, um \in BOOLEAN :
         LET sse == [n |-> Len(f_sent), user_message |-> um]
         IN IF raised
            THEN /\ f_pc' = "raised"
                 /\ UNCHANGED <<f_last_sse, f_seen_sse, f_i>>
            ELSE /\ f_last_sse' = sse
                 /\ f_seen_sse' = RecordSse(f_seen_sse, sse)
                 /\ f_i' = f_i + 1
                 /\ f_pc' = "loop"
    /\ UNCHANGED <<f_max_steps, f_predicate, f_steps, f_pred_log, f_card, f_matter_id,
                   f_seen_cards, f_seen_card_signatures, f_uploaded_file_ids, f_overrides,
                   f_sent>>
    /\ UNCHANGED <<cardVars, wsVars, reqVars, loginVars,
                   testVars, sseVars, consumeVars>>

(***************************************************************************)
(* WebSocket transport  (ApiClient._post_ws, client/api_client.py)         *)
(***************************************************************************)
\* largest max_attempts argument explored
MaxAttempts == 2

\* most frames the server sends after real messages during one call
MaxFrames == 3

\* a server frame {event, data}; its data is a map carrying output and a serial number
DataFrame(event, output, seq) ==
    PyDict(<<Item("event", Lit(event)),
             Item("data", PyDict(<<Item("output", output), Item("seq", PyInt(seq))>>))>>)

\* a server frame whose data is a map without output
PlainFrame(event, seq) ==
    PyDict(<<Item("event", Lit(event)), Item("data", PyDict(<<Item("seq", PyInt(seq))>>))>>)

\* a server frame whose data is not a map
ScalarFrame(event, data) == PyDict(<<Item("event", Lit(event)), Item("data", data)>>)

\* a server frame without a data key
BareFrame(event, seq) ==
    PyDict(<<Item("event", Lit(event)), Item("output", Lit("top")), Item("seq", PyInt(seq))>>)

\* the decoded frames the server may send as its seq-th frame of the call
FramePayloads(seq) ==
    { PlainFrame("progress", seq), PlainFrame("card", seq), PlainFrame("error", seq),
      PlainFrame("ping", seq), BareFrame("ping", seq),
      PyDict(<<Item("seq", PyInt(seq))>>),
      DataFrame("end", Lit("done"), seq), DataFrame("end", PyStr(<<>>), seq),
      DataFrame("end", PyNone, seq), DataFrame("end", PyInt(17), seq),
      PlainFrame("end", seq), ScalarFrame("end", Lit("bye")), ScalarFrame("end", PyNone),
      BareFrame("end", seq),
      DataFrame("complete", Lit("done"), seq), ScalarFrame("complete", PyList(<<>>)) }

\* events.append({"event": evt, "data": evt_data}), line 196
StreamEvent(evt, evt_data) == PyDict(<<Item("event", evt), Item("data", evt_data)>>)

\* a synthetic event that does not flag the partial termination
TimeoutEvent_unflagged ==
    StreamEvent(Lit("error"), PyDict(<<Item("error", Lit("timeout"))>>))

\* the synthetic event of lines 201-206
TimeoutEvent ==
    StreamEvent(Lit("error"),
                PyDict(<<Item("error", Lit("timeout")), Item("partial", PyBool(TRUE))>>))

\* a read timeout that leaves the drain loop without recording anything
OnReadTimeout_silent(events) == events

\* except asyncio.TimeoutError: events.append(...), lines 200-206
OnReadTimeout(events) == Append(events, TimeoutEvent)

\* heartbeats treated as content
IsPing_never(evt) == FALSE

\* evt == "ping", line 177
IsPing(evt) == evt = Lit("ping")

\* only end stops the drain loop
IsTerminal_end_only(evt) == evt = Lit("end")

\* evt in {"end", "complete"}, line 198
IsTerminal(evt) == evt \in {Lit("end"), Lit("complete")}

\* payload.get("data", payload), line 174
EventData(payload) == IF HasKey(payload, <<"data">>) THEN Get(payload, "data") ELSE payload

\* events created once, before the retry loop
AttemptEvents_kept(events) == events

\* events: list[...] = [] at the top of every attempt, line 138
AttemptEvents(events) == <<>>

\* output taken from end events only
ExtractOutput_end_only(events) ==
    LET Hit(i) == /\ Get(events[i], "event") = Lit("end")
                  /\ Get(events[i], "data").t = "dict"
    IN IF \E i \in 1..Len(events) : Hit(i)
       THEN LET i == CHOOSE i \in 1..Len(events) :
                        Hit(i) /\ \A j \in (i + 1)..Len(events) : ~Hit(j)
            IN StrOf(PyOr(Get(Get(events[i], "data"), "output"), PyStr(<<>>)))
       ELSE <<>>

\* lines 209-215: scan reversed(events) for the last end/complete event whose data is a map
ExtractOutput(events) ==
    LET Hit(i) == /\ Get(events[i], "event") \in {Lit("end"), Lit("complete")}
                  /\ Get(events[i], "data").t = "dict"
    IN IF \E i \in 1..Len(events) : Hit(i)
       THEN LET i == CHOOSE i \in 1..Len(events) :
                        Hit(i) /\ \A j \in (i + 1)..Len(events) : ~Hit(j)
            IN StrOf(PyOr(Get(Get(events[i], "data"), "output"), PyStr(<<>>)))
       ELSE <<>>

\* line 160: the first server frame is accepted only if its event is auth_success
AuthAccepted_any(reply) == reply \in {"auth_success", "other_event"}

AuthAccepted(reply) == reply = "auth_success"

\* line 219: last_exc = e
RecordException_first(last_exc, e) == IF last_exc = "" THEN e ELSE last_exc

RecordException(last_exc, e) == e

\* except Exception as e, lines 218-222: leave the connection, retry or re-raise
HandleException(e) ==
    /\ w_last_exc' = RecordException(w_last_exc, e)
    /\ w_exc_log' = Append(w_exc_log, [attempt |-> w_attempt, exc |-> e])
    /\ w_outcomes' = Append(w_outcomes, "exception")
    /\ w_prior' = w_prior \o w_received
    /\ w_received' = <<>>
    /\ IF w_attempt >= w_max_attempts
       THEN w_pc' = "raised" /\ UNCHANGED w_attempt
       ELSE w_pc' = "attempt" /\ w_attempt' = w_attempt + 1

\* lines 137-155 (and 224): next attempt, connect, send the auth frame
WsConnect ==
    /\ w_pc = "attempt"
    /\ IF w_attempt > w_max_attempts
       THEN /\ w_pc' = "raised"
            /\ w_last_exc' = IF w_last_exc = "" THEN "RuntimeError" ELSE w_last_exc
            /\ UNCHANGED <<w_attempt, w_events, w_wire, w_received, w_prior, w_outcomes, w_exc_log>>
       ELSE /\ w_events' = AttemptEvents(w_events)
            /\ \E connected \in BOOLEAN :
                 IF connected
                 THEN /\ w_wire' = Append(w_wire, [attempt |-> w_attempt, type |-> "auth"])
                      /\ w_pc' = "auth_wait"
                      /\ UNCHANGED <<w_attempt, w_last_exc, w_received, w_prior, w_outcomes, w_exc_log>>
                 ELSE /\ HandleException("ConnectError")
                      /\ UNCHANGED w_wire
    /\ UNCHANGED <<w_max_attempts, w_output, w_seq, w_auth_log, w_beat>>
    /\ UNCHANGED <<cardVars, flowVars, reqVars, loginVars,
                   testVars, sseVars, consumeVars>>

\* lines 158-165: wait for auth_success, then send the real message
WsAuth ==
    /\ w_pc = "auth_wait"
    /\ \E reply \in {"auth_success", "other_event", "undecodable", "timeout", "closed"} :
         /\ w_auth_log' = Append(w_auth_log, [attempt |-> w_attempt, reply |-> reply])
         /\ IF AuthAccepted(reply)
            THEN /\ w_wire' = Append(w_wire, [attempt |-> w_attempt, type |-> "message"])
                 /\ w_pc' = "draining"
                 /\ UNCHANGED <<w_attempt, w_last_exc, w_received, w_prior, w_outcomes, w_exc_log>>
            ELSE /\ HandleException(CASE reply = "other_event" -> "RuntimeError"
                                      [] reply = "undecodable" -> "JSONDecodeError"
                                      [] reply = "timeout" -> "TimeoutError"
                                      [] reply = "closed" -> "ConnectionClosed")
                 /\ UNCHANGED w_wire
    /\ UNCHANGED <<w_max_attempts, w_events, w_output, w_seq, w_beat>>
    /\ UNCHANGED <<cardVars, flowVars, reqVars, loginVars,
                   testVars, sseVars, consumeVars>>

\* lines 168-199 and 209-216: one decodable frame arrives in the drain loop
DrainRecv ==
    /\ w_pc = "draining"
    /\ w_seq < MaxFrames
    /\ \E payload \in FramePayloads(w_seq + 1) :
         LET evt == Get(payload, "event")
             evt_data == EventData(payload)
             appended == Append(w_events, StreamEvent(evt, evt_data))
         IN /\ w_received' = Append(w_received, payload)
            /\ IF IsPing(evt)
               THEN UNCHANGED <<w_events, w_output, w_pc, w_outcomes>>
               ELSE /\ w_events' = appended
                    /\ IF IsTerminal(evt)
                       THEN /\ w_output' = ExtractOutput(appended)
                            /\ w_pc' = "returned"
                            /\ w_outcomes' = Append(w_outcomes, "terminal")
                       ELSE UNCHANGED <<w_output, w_pc, w_outcomes>>
    /\ w_seq' = w_seq + 1
    /\ UNCHANGED <<w_max_attempts, w_attempt, w_last_exc, w_wire, w_prior, w_auth_log, w_exc_log,
                   w_beat>>
    /\ UNCHANGED <<cardVars, flowVars, reqVars, loginVars,
                   testVars, sseVars, consumeVars>>

\* lines 171-180 once the frame log is full: the server keeps sending ping frames, each
\* within the read timeout; the loop drops them and reads on. Only their parity is kept.
DrainHeartbeat ==
    /\ w_pc = "draining"
    /\ w_seq = MaxFrames
    /\ IsPing(Get(PlainFrame("ping", w_seq + 1), "event"))
    /\ w_beat' = ~w_beat
    /\ UNCHANGED <<w_pc, w_max_attempts, w_attempt, w_events, w_output, w_last_exc, w_wire,
                   w_received, w_prior, w_outcomes, w_seq, w_auth_log, w_exc_log>>
    /\ UNCHANGED <<cardVars, flowVars, reqVars, loginVars,
                   testVars, sseVars, consumeVars>>

\* lines 200-216: no frame within the per-event read timeout
DrainTimeout ==
    /\ w_pc = "draining"
    /\ w_events' = OnReadTimeout(w_events)
    /\ w_output' = ExtractOutput(OnReadTimeout(w_events))
    /\ w_pc' = "returned"
    /\ w_outcomes' = Append(w_outcomes, "timeout")
    /\ w_beat' = FALSE
    /\ UNCHANGED <<w_max_attempts, w_attempt, w_last_exc, w_wire, w_received, w_prior, w_seq,
                   w_auth_log, w_exc_log>>
    /\ UNCHANGED <<cardVars, flowVars, reqVars, loginVars,
                   testVars, sseVars, consumeVars>>

\* lines 171-173 raising anything but TimeoutError: connection closed while reading,
\* a frame that is not JSON, a JSON frame that is not a map
DrainFail ==
    /\ w_pc = "draining"
    /\ \E e \in {"ConnectionClosed", "JSONDecodeError", "AttributeError"} : HandleException(e)
    /\ w_beat' = FALSE
    /\ UNCHANGED <<w_max_attempts, w_events, w_output, w_wire, w_seq, w_auth_log>>
    /\ UNCHANGED <<cardVars, flowVars, reqVars, loginVars,
                   testVars, sseVars, consumeVars>>

(***************************************************************************)
(* ApiClient._request: HTTP requests with a retry budget for GET           *)
(***************************************************************************)
\* largest E2E_HTTP_GET_RETRIES value explored
MaxGetRetries == 3

\* exceptions: the class and, for httpx.HTTPStatusError, the status of its response
Exc(kind, code) == [kind |-> kind, code |-> code]

\* last_exc = None
NoExc == Exc("none", 0)

\* what one client.request(...) call meets: a response with a status and a body that is
\* JSON or not, or an httpx.RequestError (connect error, read timeout, ...)
Response(code, json) == [kind |-> "response", code |-> code, json |-> json]

RequestError == [kind |-> "RequestError", code |-> 0, json |-> FALSE]

StatusInputs == {200, 400, 401, 404, 500, 502, 503, 504}

AttemptOutcomes ==
    {Response(code, TRUE) : code \in StatusInputs} \cup {Response(200, FALSE), RequestError}

MethodInputs == {"GET", "get", "POST", "PUT", "PATCH", "DELETE"}

\* method.upper()
Upper(method) ==
    CASE method = "get" -> "GET"
      [] OTHER -> method

\* lines 97 and 107: the statuses a retry is spent on
RetryStatuses_with_500 == {500, 502, 503, 504}

RetryStatuses == {502, 503, 504}

\* line 84: max_attempts = get_retries if method.upper() == "GET" else 1
MaxAttemptsOf_any_method(method, get_retries) == get_retries

MaxAttemptsOf(method, get_retries) == IF Upper(method) = "GET" THEN get_retries ELSE 1

\* response.raise_for_status(): 4xx and 5xx raise httpx.HTTPStatusError
IsErrorStatus(code) == code >= 400

\* the identity fields of a client: before login and after it
Session(token, user_id, organization_id, is_superuser) ==
    [token |-> token, user_id |-> user_id, organization_id |-> organization_id,
     is_superuser |-> is_superuser]

Anonymous == Session(PyNone, PyNone, PyNone, FALSE)

SessionInputs == {Anonymous, Session(Lit("tok"), Lit("u1"), Lit("o1"), TRUE)}

\* INTERNAL_API_KEY: unset, empty, or a key
InternalApiKeyInputs == {PyNone, PyStr(<<>>), Lit("secret")}

\* paths as segments: an internal route, a session chat, a deliverable listing
PathInputs ==
    { <<"/matter-service", "/api/v1", "/internal", "/matters">>,
      <<"/consultations-service", "/api/v1", "/sessions", "/s1", "/chat">>,
      <<"/matter-service", "/api/v1", "/deliverables">> }

\* the items a dict gets from a sequence of conditional assignments
DictOf(entries) ==
    LET Present(e) == e.present
    IN PyDict([i \in 1..Len(SelectSeq(entries, Present)) |->
                  [k |-> SelectSeq(entries, Present)[i].k, v |-> SelectSeq(entries, Present)[i].v]])

\* lines 53-66: the headers property
headers(session, internal_api_key) ==
    DictOf(<< [present |-> TRUE, k |-> <<"Content-Type">>, v |-> Lit("application/json")],
              [present |-> Truthy(session.token), k |-> <<"Authorization">>,
               v |-> PyStr(<<"Bearer", " ">> \o StrOf(session.token))],
              [present |-> Truthy(session.user_id), k |-> <<"X-User-Id">>,
               v |-> PyStr(StrOf(session.user_id))],
              [present |-> Truthy(session.organization_id), k |-> <<"X-Organization-Id">>,
               v |-> PyStr(StrOf(session.organization_id))],
              [present |-> session.is_superuser, k |-> <<"X-Is-Superuser">>, v |-> Lit("true")],
              [present |-> Truthy(internal_api_key), k |-> <<"X-Internal-Api-Key">>,
               v |-> PyStr(StrOf(internal_api_key))] >>)

\* lines 68-85: the client check and the attempt budget
ReqStart ==
    /\ q_pc = "start"
    /\ q_headers' = headers(q_session, q_internal_api_key)
    /\ IF q_client
       THEN /\ q_max_attempts' = MaxAttemptsOf(q_method, q_get_retries)
            /\ q_pc' = "loop"
            /\ UNCHANGED q_exc
       ELSE /\ q_pc' = "raised"
            /\ q_exc' = Exc("RuntimeError", 0)
            /\ UNCHANGED q_max_attempts
    /\ UNCHANGED <<q_path, q_internal_api_key, q_session, q_method, q_client, q_get_retries, q_attempt, q_last_exc, q_result, q_log>>
    /\ UNCHANGED <<cardVars, flowVars, wsVars, loginVars,
                   testVars, sseVars, consumeVars>>

\* lines 86-113: one pass of the for loop, one client.request(...) call
ReqAttempt ==
    /\ q_pc = "loop"
    /\ q_attempt <= q_max_attempts
    /\ UNCHANGED q_headers
    /\ \E o \in AttemptOutcomes :
         /\ q_log' = Append(q_log, o)
         /\ IF o.kind = "RequestError"
            THEN /\ q_last_exc' = Exc("RequestError", 0)
                 /\ IF q_attempt >= q_max_attempts
                    THEN /\ q_pc' = "raised"
                         /\ q_exc' = Exc("RequestError", 0)
                         /\ UNCHANGED <<q_attempt, q_result>>
                    ELSE /\ q_attempt' = q_attempt + 1
                         /\ UNCHANGED <<q_pc, q_exc, q_result>>
            ELSE IF o.code \in RetryStatuses /\ q_attempt < q_max_attempts
            THEN /\ q_attempt' = q_attempt + 1
                 /\ UNCHANGED <<q_pc, q_exc, q_last_exc, q_result>>
            ELSE IF IsErrorStatus(o.code)
            THEN /\ q_pc' = "raised"
                 /\ q_exc' = Exc("HTTPStatusError", o.code)
                 /\ UNCHANGED <<q_attempt, q_last_exc, q_result>>
            ELSE IF o.json
            THEN /\ q_pc' = "returned"
                 /\ q_result' = TRUE
                 /\ UNCHANGED <<q_attempt, q_last_exc, q_exc>>
            ELSE /\ q_pc' = "raised"
                 /\ q_exc' = Exc("JSONDecodeError", 0)
                 /\ UNCHANGED <<q_attempt, q_last_exc, q_result>>
    /\ UNCHANGED <<q_path, q_internal_api_key, q_session, q_method, q_client, q_get_retries, q_max_attempts>>
    /\ UNCHANGED <<cardVars, flowVars, wsVars, loginVars,
                   testVars, sseVars, consumeVars>>

\* line 114: the loop ran out without returning or raising
ReqExhausted ==
    /\ q_pc = "loop"
    /\ q_attempt > q_max_attempts
    /\ UNCHANGED q_headers
    /\ q_pc' = "raised"
    /\ q_exc' = IF q_last_exc # NoExc THEN q_last_exc ELSE Exc("RuntimeError", 0)
    /\ UNCHANGED <<q_path, q_internal_api_key, q_session, q_method, q_client, q_get_retries, q_max_attempts, q_attempt, q_last_exc,
                   q_result, q_log>>
    /\ UNCHANGED <<cardVars, flowVars, wsVars, loginVars,
                   testVars, sseVars, consumeVars>>

(***************************************************************************)
(* ApiClient.login: the login POST, then the identity fetch                *)
(***************************************************************************)
\* largest E2E_HTTP_LOGIN_RETRIES value explored
MaxLoginAttempts == 2

\* line 257: transient = {500, 502, 503, 504}
transient == {500, 502, 503, 504}

\* what one login POST meets
LoginPostOutcomes ==
    {Response(code, TRUE) : code \in {200, 400, 401, 500, 503}}
        \cup {Response(200, FALSE), RequestError}

\* what one get_me() call gives: a payload with or without "data", or the exception that
\* _request raised
MePayload(has_data) == [kind |-> "payload", data |-> has_data, exc |-> NoExc]

MeRaises(e) == [kind |-> "exception", data |-> FALSE, exc |-> e]

MeOutcomes ==
    {MePayload(TRUE), MePayload(FALSE)}
        \cup {MeRaises(Exc("HTTPStatusError", code)) : code \in {401, 403, 503}}
        \cup {MeRaises(Exc("RequestError", 0))}

\* lines 321-325: except Exception as e around one whole attempt
LoginHandleException(e) ==
    /\ l_last_exc' = e
    /\ IF l_attempt >= l_max_attempts
       THEN /\ l_pc' = "raised"
            /\ l_exc' = e
            /\ UNCHANGED l_attempt
       ELSE /\ l_pc' = "post"
            /\ l_attempt' = l_attempt + 1
            /\ UNCHANGED l_exc

\* lines 260-278: one pass of the outer loop up to the token
LoginPost ==
    /\ l_pc = "post"
    /\ l_attempt <= l_max_attempts
    /\ IF ~l_client
       THEN /\ LoginHandleException(Exc("RuntimeError", 0))
            /\ UNCHANGED <<l_j, l_token, l_posts>>
       ELSE \E o \in LoginPostOutcomes :
              /\ l_posts' = Append(l_posts, o)
              /\ IF o.kind = "RequestError"
                 THEN /\ LoginHandleException(Exc("RequestError", 0))
                      /\ UNCHANGED <<l_j, l_token>>
                 ELSE IF o.code \in transient /\ l_attempt < l_max_attempts
                 THEN /\ l_attempt' = l_attempt + 1
                      /\ UNCHANGED <<l_pc, l_j, l_last_exc, l_exc, l_token>>
                 ELSE IF IsErrorStatus(o.code)
                 THEN /\ LoginHandleException(Exc("HTTPStatusError", o.code))
                      /\ UNCHANGED <<l_j, l_token>>
                 ELSE IF ~o.json
                 THEN /\ LoginHandleException(Exc("JSONDecodeError", 0))
                      /\ UNCHANGED <<l_j, l_token>>
                 ELSE /\ l_token' = TRUE
                      /\ l_j' = 1
                      /\ l_pc' = "me"
                      /\ UNCHANGED <<l_attempt, l_last_exc, l_exc>>
    /\ UNCHANGED <<l_client, l_max_attempts, l_identity, l_me_log>>
    /\ UNCHANGED <<cardVars, flowVars, wsVars, reqVars,
                   testVars, sseVars, consumeVars>>

\* lines 282-320: one pass of the inner loop, one get_me() call
LoginGetMe ==
    /\ l_pc = "me"
    /\ \E o \in MeOutcomes :
         /\ l_me_log' = Append(l_me_log, [attempt |-> l_attempt, outcome |-> o])
         /\ IF o.kind = "payload"
            THEN IF o.data
                 THEN /\ l_identity' = TRUE
                      /\ l_pc' = "returned"
                      /\ UNCHANGED <<l_attempt, l_j, l_last_exc, l_exc>>
                 ELSE /\ LoginHandleException(Exc("RuntimeError", 0))
                      /\ UNCHANGED <<l_j, l_identity>>
            ELSE IF o.exc.kind = "HTTPStatusError"
            THEN IF o.exc.code \in transient /\ l_j < l_max_attempts
                 THEN /\ l_j' = l_j + 1
                      /\ UNCHANGED <<l_pc, l_attempt, l_last_exc, l_exc, l_identity>>
                 ELSE /\ LoginHandleException(o.exc)
                      /\ UNCHANGED <<l_j, l_identity>>
            ELSE IF l_j >= l_max_attempts
                 THEN /\ LoginHandleException(o.exc)
                      /\ UNCHANGED <<l_j, l_identity>>
                 ELSE /\ l_j' = l_j + 1
                      /\ UNCHANGED <<l_pc, l_attempt, l_last_exc, l_exc, l_identity>>
    /\ UNCHANGED <<l_client, l_max_attempts, l_token, l_posts>>
    /\ UNCHANGED <<cardVars, flowVars, wsVars, reqVars,
                   testVars, sseVars, consumeVars>>

\* line 327: the outer loop ran out without returning or raising
LoginExhausted ==
    /\ l_pc = "post"
    /\ l_attempt > l_max_attempts
    /\ l_pc' = "raised"
    /\ l_exc' = IF l_last_exc # NoExc THEN l_last_exc ELSE Exc("RuntimeError", 0)
    /\ UNCHANGED <<l_client, l_max_attempts, l_attempt, l_j, l_last_exc, l_token, l_identity,
                   l_posts, l_me_log>>
    /\ UNCHANGED <<cardVars, flowVars, wsVars, reqVars,
                   testVars, sseVars, consumeVars>>

(***************************************************************************)
(* The cause-recommendation loop of the litigation test                    *)
(* (tests/test_litigation_flow.py, lines 445-552)                          *)
(***************************************************************************)
\* repetitions of one card signature after which the litigation test gives up
StuckThreshold == 3

\* for _ in range(30), line 452
CauseLoopIterations == 30

\* _question_sig, lines 358-361
_question_sig(q) == FieldKeyOf(q) \o <<"|">> \o InputTypeOf(q)

\* sha256(json.dumps(...)), lines 364-371, modelled as the canonical tuple it hashes
_card_sig(card) ==
    LET CleanStr(key) == Strip(StrOf(PyOr(Get(card, key), PyStr(<<>>))))
        qs == IF Get(card, "questions").t = "list" THEN Get(card, "questions").l ELSE <<>>
        IsDict(q) == q.t = "dict"
        dicts == SelectSeq(qs, IsDict)
    IN <<CleanStr("skill_id"), CleanStr("task_key"), CleanStr("review_type"),
         [i \in 1..Len(dicts) |-> _question_sig(dicts[i])]>>

CauseQuestion(top) ==
    Question(PyStr(<<"profile", ".", "cause_of_action_code">>), Lit("select"), PyBool(TRUE),
             PyNone, PyList(<<Option(Lit(top), PyBool(TRUE)), Option(Lit("other"), PyNone)>>))

\* the cards the remote workflow can hand to the test: two clarify cards that differ only
\* in a question's required flag, one material card, and two cause-recommendation cards
TestCards ==
    << Card(Lit("intake"), Lit("t1"), Lit("clarify"),
            <<Question(Lit("choice"), Lit("select"), PyBool(TRUE), PyNone, PyList(<<>>))>>),
       Card(Lit("intake"), Lit("t1"), Lit("clarify"),
            <<Question(Lit("choice"), Lit("select"), PyBool(FALSE), PyNone, PyList(<<>>))>>),
       Card(Lit("materials"), Lit("t2"), PyNone,
            <<Question(Lit("attachment_file_ids"), Lit("file_ids"), PyBool(FALSE), PyNone,
                       PyNone)>>),
       Card(Lit("cause-recommendation"), Lit("t3"), Lit("select"),
            <<CauseQuestion("transport_contract")>>),
       Card(Lit("cause-recommendation"), Lit("t3"), Lit("select"),
            <<CauseQuestion("traffic_accident")>>) >>

TestSigs == {_card_sig(TestCards[i]) : i \in 1..Len(TestCards)}

\* a card that is never taken for stuck
Stuck_never(count) == FALSE

\* line 504: if card_sig_counts[sig] > 3
Stuck(count) == count > StuckThreshold

\* lines 517: skill == "cause-recommendation" and review == "select"
IsCauseCard(card) ==
    /\ Strip(StrOf(PyOr(Get(card, "skill_id"), PyStr(<<>>)))) = <<"cause-recommendation">>
    /\ Strip(StrOf(PyOr(Get(card, "review_type"), PyStr(<<>>)))) = <<"select">>

\* lines 520-535: the select question exists, has options, and its first option is
\* transport_contract
CauseCardAccepted(card) ==
    LET qs == IF Get(card, "questions").t = "list" THEN Get(card, "questions").l ELSE <<>>
        IsSelect(q) == q.t = "dict" /\ FieldKeyOf(q) = <<"profile", ".", "cause_of_action_code">>
        found == SelectSeq(qs, IsSelect)
        options == IF found = <<>> THEN <<>> ELSE OptionsOf(found[1])
        top == IF options # <<>> /\ options[1].t = "dict" THEN options[1] ELSE PyDict(<<>>)
    IN /\ found # <<>>
       /\ options # <<>>
       /\ Strip(StrOf(PyOr(Get(top, "value"), PyStr(<<>>)))) = <<"transport_contract">>

\* lines 452-457 and 551-552: the next pass starts with get_session, or the range is used up
\* with no cause card found
TestLoopHead ==
    /\ t_pc = "head"
    /\ IF t_iter > CauseLoopIterations
       THEN /\ t_pc' = "assertion_error"
            /\ UNCHANGED t_matter_id
       ELSE \E ok \in BOOLEAN, bound \in BOOLEAN :
              IF ok
              THEN /\ t_matter_id' = (bound \/ t_matter_id)
                   /\ t_pc' = IF t_next_card = 0 THEN "acquire" ELSE "handle"
              ELSE /\ t_pc' = "raised"
                   /\ UNCHANGED t_matter_id
    /\ UNCHANGED <<t_iter, t_next_card, t_pending, t_counts, t_resumed, t_cause_card>>
    /\ UNCHANGED <<cardVars, flowVars, wsVars, reqVars, loginVars, sseVars, consumeVars>>

\* lines 459-479: poll the pending card up to 6 times; with none, send a nudge, take the
\* card of its result if there is one, and start the next pass
TestAcquire ==
    /\ t_pc = "acquire"
    /\ \E ok \in BOOLEAN, polled \in 0..Len(TestCards), card_from_chat \in 0..Len(TestCards) :
         IF ~ok
         THEN /\ t_pc' = "raised"
              /\ UNCHANGED <<t_next_card, t_iter>>
         ELSE IF polled # 0
         THEN /\ t_next_card' = polled
              /\ t_pc' = "handle"
              /\ UNCHANGED t_iter
         ELSE /\ t_next_card' = card_from_chat
              /\ t_iter' = t_iter + 1
              /\ t_pc' = "head"
    /\ UNCHANGED <<t_pending, t_counts, t_resumed, t_matter_id, t_cause_card>>
    /\ UNCHANGED <<cardVars, flowVars, wsVars, reqVars, loginVars, sseVars, consumeVars>>

\* lines 481-538 and 551: count the card's signature, fail on a stuck card, stop at the
\* cause-recommendation card, otherwise go on to resume
TestHandle ==
    /\ t_pc = "handle"
    /\ t_pending' = t_next_card
    /\ t_next_card' = 0
    /\ LET pending == TestCards[t_next_card]
           sig == _card_sig(pending)
           count == t_counts[sig] + 1
       IN /\ t_counts' = [t_counts EXCEPT ![sig] = count]
          /\ IF Stuck(count)
             THEN t_pc' = "assertion_error" /\ UNCHANGED t_cause_card
             ELSE IF IsCauseCard(pending)
             THEN IF CauseCardAccepted(pending)
                  THEN /\ t_cause_card' = t_next_card
                       /\ t_pc' = IF t_matter_id THEN "done" ELSE "assertion_error"
                  ELSE t_pc' = "assertion_error" /\ UNCHANGED t_cause_card
             ELSE t_pc' = "resume" /\ UNCHANGED t_cause_card
    /\ UNCHANGED <<t_iter, t_resumed, t_matter_id>>
    /\ UNCHANGED <<cardVars, flowVars, wsVars, reqVars, loginVars, sseVars, consumeVars>>

\* lines 540-549: resume the card, take the next card from the result if it has one
TestResume ==
    /\ t_pc = "resume"
    /\ t_resumed' = [t_resumed EXCEPT ![_card_sig(TestCards[t_pending])] = @ + 1]
    /\ \E ok \in BOOLEAN, card_from_resume \in 0..Len(TestCards) :
         IF ok
         THEN /\ t_next_card' = card_from_resume
              /\ t_iter' = t_iter + 1
              /\ t_pc' = "head"
         ELSE /\ t_pc' = "raised"
              /\ UNCHANGED <<t_next_card, t_iter>>
    /\ UNCHANGED <<t_pending, t_counts, t_matter_id, t_cause_card>>
    /\ UNCHANGED <<cardVars, flowVars, wsVars, reqVars, loginVars, sseVars, consumeVars>>

(***************************************************************************)
(* Stream event checks  (tests/lawyer_workbench/_support/sse.py)           *)
(***************************************************************************)
\* longest event list explored
MaxEvents == 3

\* _events, lines 14-18: the dict items of sse["events"]
_events(sse) ==
    LET evts == IF sse.t = "dict" THEN Get(sse, "events") ELSE PyNone
        IsDict(it) == it.t = "dict"
    IN IF evts.t = "list" THEN SelectSeq(evts.l, IsDict) ELSE <<>>

\* events_of_type, lines 30-40: the data of the events of one type, wrapped when not a dict
events_of_type(sse, event) ==
    LET want == Strip(StrOf(PyOr(event, PyStr(<<>>))))
        Wanted(it) == Get(it, "event") = PyStr(want)
        hits == SelectSeq(_events(sse), Wanted)
        DataOf(it) == IF Get(it, "data").t = "dict" THEN Get(it, "data")
                      ELSE PyDict(<<Item("data", Get(it, "data"))>>)
    IN IF want = <<>> THEN <<>> ELSE [i \in 1..Len(hits) |-> DataOf(hits[i])]

task_starts(sse) == events_of_type(sse, Lit("task_start"))

task_ends(sse) == events_of_type(sse, Lit("task_end"))

\* str((it or {}).get(key) or "").strip()
CleanField(it, key) == Strip(StrOf(PyOr(Get(PyOr(it, PyDict(<<>>)), key), PyStr(<<>>))))

\* line 97: if started_nodes and node not in started_nodes
EndUnmatched(node, started_nodes) == started_nodes # {} /\ node \notin started_nodes

\* validate_task_events, lines 80-106: TRUE when it raises AssertionError
validate_task_events(sse) ==
    LET starts == task_starts(sse)
        ends == task_ends(sse)
        started_nodes == {CleanField(starts[i], "node") : i \in 1..Len(starts)}
    IN \/ \E i \in 1..Len(starts) : CleanField(starts[i], "node") = <<>>
       \/ \E i \in 1..Len(ends) :
             \/ CleanField(ends[i], "node") = <<>>
             \/ EndUnmatched(CleanField(ends[i], "node"), started_nodes)
       \/ \E i \in 1..Len(starts) :
             /\ CleanField(starts[i], "node") = <<"run_skill">>
             /\ CleanField(starts[i], "skill_id") = <<>>

\* assert_task_lifecycle, lines 109-117: TRUE when it raises AssertionError
assert_task_lifecycle(sse, min_starts) ==
    \/ Len(task_starts(sse)) < min_starts
    \/ task_ends(sse) = <<>>
    \/ validate_task_events(sse)

StreamItem(event, data) == PyDict(<<Item("event", Lit(event)), Item("data", data)>>)

\* the events a stream can carry
EventInputs ==
    { StreamItem("task_start", PyDict(<<Item("node", Lit("a"))>>)),
      StreamItem("task_start", PyDict(<<Item("node", Lit("run_skill")),
                                        Item("skill_id", Lit("s1"))>>)),
      StreamItem("task_start", PyDict(<<Item("node", Lit("run_skill"))>>)),
      StreamItem("task_end", PyDict(<<Item("node", Lit("a"))>>)),
      StreamItem("task_end", PyDict(<<Item("node", Lit("b"))>>)),
      StreamItem("task_end", PyDict(<<>>)),
      StreamItem("progress", PyDict(<<Item("message", Lit("m"))>>)) }

\* the event lists of at most MaxEvents events
EventLists == UNION {[1..n -> EventInputs] : n \in 0..MaxEvents}

SseInputs == {PyDict(<<Item("events", PyList(evts))>>) : evts \in EventLists}

\* validate_task_events(sse) is called
ValidateTaskEvents ==
    /\ s_pc = "ready"
    /\ s_called' = "validate_task_events"
    /\ s_pc' = IF validate_task_events(s_sse) THEN "assertion_error" ELSE "returned"
    /\ UNCHANGED <<s_sse, s_min_starts>>
    /\ UNCHANGED <<cardVars, flowVars, wsVars, reqVars, loginVars, testVars, consumeVars>>

\* assert_task_lifecycle(sse, min_starts=...) is called
AssertTaskLifecycle ==
    /\ s_pc = "ready"
    /\ s_called' = "assert_task_lifecycle"
    /\ s_pc' = IF assert_task_lifecycle(s_sse, s_min_starts) THEN "assertion_error"
               ELSE "returned"
    /\ UNCHANGED <<s_sse, s_min_starts>>
    /\ UNCHANGED <<cardVars, flowVars, wsVars, reqVars, loginVars, testVars, consumeVars>>

(***************************************************************************)
(* consume_pending_cards  (scripts/run_bus_injury_v4_e2e.py)               *)
(***************************************************************************)
\* largest max_cards argument explored
MaxCards == 3

\* the script's own auto_answer_card, lines 168-201: the value of one question
V4Value(q, it, required, uploaded_file_ids) ==
    LET default == Get(q, "default")
        options == OptionsOf(q)
        FirstValued ==
            IF \E i \in 1..Len(options) : IsValuedOption(options[i])
            THEN Get(options[CHOOSE i \in 1..Len(options) :
                                /\ IsValuedOption(options[i])
                                /\ \A j \in 1..(i - 1) : ~IsValuedOption(options[j])], "value")
            ELSE PyNone
        value ==
            IF FieldKeyOf(q) = <<"attachment_file_ids">> THEN uploaded_file_ids
            ELSE IF it \in {<<"select">>, <<"single_select">>, <<"single_choice">>}
            THEN IF default # PyNone THEN default
                 ELSE IF FirstRecommended(options) # PyNone THEN FirstRecommended(options)
                 ELSE FirstValued
            ELSE IF it \in {<<"multi_select">>, <<"multiple_select">>}
            THEN IF default.t = "list" THEN default
                 ELSE IF FirstRecommended(options) # PyNone
                 THEN PyList(<<FirstRecommended(options)>>)
                 ELSE PyList(<<>>)
            ELSE IF it \in {<<"boolean">>, <<"bool">>}
            THEN IF default # PyNone THEN PyBool(Truthy(default)) ELSE PyBool(TRUE)
            ELSE IF it \in {<<"file_id">>, <<"file_ids">>}
            THEN IF it = <<"file_ids">> THEN uploaded_file_ids
                 ELSE PyList(SubSeq(uploaded_file_ids.l, 1,
                                    IF uploaded_file_ids.l = <<>> THEN 0 ELSE 1))
            ELSE IF default # PyNone THEN default
                 ELSE IF required THEN Lit("confirmed") ELSE PyNone
        blank == \/ value = PyNone
                 \/ (value.t = "str" /\ Strip(value.s) = <<>>)
                 \/ (value.t = "list" /\ value.l = <<>>)
    IN IF required /\ blank
       THEN IF it \in {<<"boolean">>, <<"bool">>} THEN PyBool(TRUE) ELSE Lit("confirmed")
       ELSE value

RECURSIVE V4AnswerLoop(_, _)
V4AnswerLoop(questions, uploaded_file_ids) ==
    IF questions = <<>> THEN <<>>
    ELSE LET q == Head(questions)
             required == Truthy(Get(q, "required"))
             value == V4Value(q, InputTypeOf(q), required, uploaded_file_ids)
         IN (IF q.t # "dict" \/ FieldKeyOf(q) = <<>> \/ (value = PyNone /\ ~required)
             THEN <<>>
             ELSE <<Answer(FieldKeyOf(q), value)>>)
            \o V4AnswerLoop(Tail(questions), uploaded_file_ids)

\* auto_answer_card(card, uploaded_file_ids) of the script, lines 152-207
v4_auto_answer_card(card, uploaded_file_ids) ==
    LET questions == IF Get(card, "questions").t = "list" THEN Get(card, "questions").l
                     ELSE <<>>
    IN PyDict(<<Item("answers", PyList(V4AnswerLoop(questions, uploaded_file_ids)))>>)

\* the cards the remote can leave pending: one with a required question, one whose only
\* question is optional and has no value, one asking for attachments, one without questions
V4Cards ==
    { Card(Lit("intake"), Lit("t1"), Lit("clarify"),
           <<Question(Lit("confirmed"), Lit("boolean"), PyBool(TRUE), PyNone, PyNone)>>),
      Card(Lit("intake"), Lit("t2"), Lit("clarify"),
           <<Question(Lit("note"), Lit("text"), PyBool(FALSE), PyNone, PyNone)>>),
      Card(Lit("materials"), Lit("t3"), PyNone,
           <<Question(Lit("attachment_file_ids"), Lit("file_ids"), PyBool(FALSE), PyNone,
                      PyNone)>>),
      Card(Lit("review"), Lit("t4"), PyNone, <<>>) }

\* what unwrap(get_pending_card(...)) can give
PendingResponses == {PyNone, PyDict(<<>>)} \cup V4Cards

\* the loop sending one resume more than max_cards allows
LoopContinues_inclusive(consumed, max_cards) == consumed <= max_cards

\* line 253: while consumed < max_cards
LoopContinues(consumed, max_cards) == consumed < max_cards

\* lines 255 and 278: isinstance(pending, dict) and pending
IsPendingCard(pending) == pending.t = "dict" /\ Truthy(pending)

\* lines 253-267: one pass of the loop up to the resume being sent
ConsumePoll ==
    /\ k_pc = "loop"
    /\ LoopContinues(k_consumed, k_max_cards)
    /\ \E ok \in BOOLEAN, pending \in PendingResponses :
         LET payload == v4_auto_answer_card(pending, k_uploaded)
             answers == IF Get(payload, "answers").t = "list" THEN Get(payload, "answers").l
                        ELSE <<>>
         IN IF ~ok
            THEN /\ k_pc' = "raised"
                 /\ UNCHANGED <<k_pending, k_payload, k_sent, k_unresolved, k_stop>>
            ELSE /\ k_pending' = pending
                 /\ IF ~IsPendingCard(pending)
                    THEN /\ k_pc' = "returned"
                         /\ k_unresolved' = FALSE
                         /\ k_stop' = "empty"
                         /\ UNCHANGED <<k_payload, k_sent>>
                    ELSE IF answers = <<>>
                    THEN /\ k_pc' = "returned"
                         /\ k_unresolved' = TRUE
                         /\ k_stop' = "no_answers"
                         /\ UNCHANGED <<k_payload, k_sent>>
                    ELSE /\ k_payload' = payload
                         /\ k_sent' = Append(k_sent, [card |-> pending, payload |-> payload])
                         /\ k_pc' = "resume_wait"
                         /\ UNCHANGED <<k_unresolved, k_stop>>
    /\ UNCHANGED <<k_max_cards, k_uploaded, k_consumed>>
    /\ UNCHANGED <<cardVars, flowVars, wsVars, reqVars, loginVars, testVars, sseVars>>

\* lines 265-275 (and run_ws_turn, lines 230-234): the resume returns, times out, raises
\* RuntimeError, or raises something else
ConsumeResumeDone ==
    /\ k_pc = "resume_wait"
    /\ \E outcome \in {"returned", "TimeoutError", "RuntimeError", "ConnectionClosed"} :
         IF outcome = "returned"
         THEN /\ k_consumed' = k_consumed + 1
              /\ k_pc' = "loop"
              /\ UNCHANGED <<k_unresolved, k_stop>>
         ELSE IF outcome \in {"TimeoutError", "RuntimeError"}
         THEN /\ k_pc' = "returned"
              /\ k_unresolved' = TRUE
              /\ k_stop' = IF outcome = "TimeoutError" THEN "timeout" ELSE "runtime_error"
              /\ UNCHANGED k_consumed
         ELSE /\ k_pc' = "raised"
              /\ UNCHANGED <<k_consumed, k_unresolved, k_stop>>
    /\ UNCHANGED <<k_max_cards, k_uploaded, k_pending, k_payload, k_sent>>
    /\ UNCHANGED <<cardVars, flowVars, wsVars, reqVars, loginVars, testVars, sseVars>>

\* lines 277-278: max_cards resumes were consumed; one more query decides the result
ConsumeFinal ==
    /\ k_pc = "loop"
    /\ ~LoopContinues(k_consumed, k_max_cards)
    /\ \E ok \in BOOLEAN, pending \in PendingResponses :
         IF ok
         THEN /\ k_pending' = pending
              /\ k_unresolved' = IsPendingCard(pending)
              /\ k_stop' = "max_cards"
              /\ k_pc' = "returned"
         ELSE /\ k_pc' = "raised"
              /\ UNCHANGED <<k_pending, k_unresolved, k_stop>>
    /\ UNCHANGED <<k_max_cards, k_uploaded, k_consumed, k_payload, k_sent>>
    /\ UNCHANGED <<cardVars, flowVars, wsVars, reqVars, loginVars, testVars, sseVars>>

(***************************************************************************)
(* Specifications                                                          *)
(***************************************************************************)
\* auto_answer_card is called with a card, an override map and an upload list;
\* no driver loop and no WebSocket call exist
InitCard ==
    /\ c_pc = "ready"
    /\ c_card \in CardInputs
    /\ c_overrides \in OverrideInputs
    /\ c_uploaded \in UploadInputs
    /\ c_response = PyNone
    /\ c_again = PyNone
    /\ f_pc = "off"
    /\ f_max_steps = 0
    /\ f_predicate = "deliverable"
    /\ f_i = 1
    /\ f_steps = 0
    /\ f_pred_log = <<>>
    /\ f_card = PyNone
    /\ f_matter_id = 0
    /\ f_seen_cards = <<>>
    /\ f_seen_card_signatures = <<>>
    /\ f_seen_sse = <<>>
    /\ f_last_sse = NoSse
    /\ f_uploaded_file_ids = PyList(<<>>)
    /\ f_overrides = PyDict(<<>>)
    /\ f_sent = <<>>
    /\ f_in_flight = 0
    /\ f_trace = <<>>
    /\ r_pending = 0
    /\ r_matter = 0
    /\ r_done = FALSE
    /\ w_pc = "off"
    /\ w_max_attempts = 0
    /\ w_attempt = 1
    /\ w_events = <<>>
    /\ w_output = <<>>
    /\ w_last_exc = ""
    /\ w_wire = <<>>
    /\ w_received = <<>>
    /\ w_prior = <<>>
    /\ w_outcomes = <<>>
    /\ w_seq = 0
    /\ w_auth_log = <<>>
    /\ w_exc_log = <<>>
    /\ w_beat = FALSE
    /\ q_pc = "off"
    /\ q_method = "GET"
    /\ q_client = FALSE
    /\ q_get_retries = 0
    /\ q_max_attempts = 0
    /\ q_attempt = 1
    /\ q_last_exc = NoExc
    /\ q_exc = NoExc
    /\ q_result = FALSE
    /\ q_log = <<>>
    /\ q_path = <<>>
    /\ q_internal_api_key = PyNone
    /\ q_session = Anonymous
    /\ q_headers = PyNone
    /\ l_pc = "off"
    /\ l_client = FALSE
    /\ l_max_attempts = 0
    /\ l_attempt = 1
    /\ l_j = 1
    /\ l_last_exc = NoExc
    /\ l_exc = NoExc
    /\ l_token = FALSE
    /\ l_identity = FALSE
    /\ l_posts = <<>>
    /\ l_me_log = <<>>
    /\ t_pc = "off"
    /\ t_iter = 1
    /\ t_next_card = 0
    /\ t_pending = 0
    /\ t_counts = <<>>
    /\ t_resumed = <<>>
    /\ t_matter_id = FALSE
    /\ t_cause_card = 0
    /\ s_pc = "off"
    /\ s_sse = PyNone
    /\ s_min_starts = 0
    /\ s_called = ""
    /\ k_pc = "off"
    /\ k_max_cards = 0
    /\ k_uploaded = PyNone
    /\ k_consumed = 0
    /\ k_pending = PyNone
    /\ k_payload = PyNone
    /\ k_sent = <<>>
    /\ k_unresolved = FALSE
    /\ k_stop = ""

\* run_until(predicate, max_steps) is called on a freshly constructed WorkbenchFlow
InitFlow ==
    /\ c_pc = "off"
    /\ c_card = PyNone
    /\ c_overrides = PyNone
    /\ c_uploaded = PyNone
    /\ c_response = PyNone
    /\ c_again = PyNone
    /\ f_pc = "loop"
    /\ f_max_steps \in 0..MaxSteps
    /\ f_predicate \in {"deliverable", "matter_bound"}
    /\ f_i = 1
    /\ f_steps = 0
    /\ f_pred_log = <<>>
    /\ f_card = PyNone
    /\ f_matter_id = 0
    /\ f_seen_cards = <<>>
    /\ f_seen_card_signatures = <<>>
    /\ f_seen_sse = <<>>
    /\ f_last_sse = NoSse
    /\ f_uploaded_file_ids \in {PyList(<<>>), PyList(<<Lit("f1")>>)}
    /\ f_overrides = PyDict(<<>>)
    /\ f_sent = <<>>
    /\ f_in_flight = 0
    /\ f_trace = <<>>
    /\ r_pending \in 0..Len(FlowCards)
    /\ r_matter = 0
    /\ r_done \in BOOLEAN
    /\ w_pc = "off"
    /\ w_max_attempts = 0
    /\ w_attempt = 1
    /\ w_events = <<>>
    /\ w_output = <<>>
    /\ w_last_exc = ""
    /\ w_wire = <<>>
    /\ w_received = <<>>
    /\ w_prior = <<>>
    /\ w_outcomes = <<>>
    /\ w_seq = 0
    /\ w_auth_log = <<>>
    /\ w_exc_log = <<>>
    /\ w_beat = FALSE
    /\ q_pc = "off"
    /\ q_method = "GET"
    /\ q_client = FALSE
    /\ q_get_retries = 0
    /\ q_max_attempts = 0
    /\ q_attempt = 1
    /\ q_last_exc = NoExc
    /\ q_exc = NoExc
    /\ q_result = FALSE
    /\ q_log = <<>>
    /\ q_path = <<>>
    /\ q_internal_api_key = PyNone
    /\ q_session = Anonymous
    /\ q_headers = PyNone
    /\ l_pc = "off"
    /\ l_client = FALSE
    /\ l_max_attempts = 0
    /\ l_attempt = 1
    /\ l_j = 1
    /\ l_last_exc = NoExc
    /\ l_exc = NoExc
    /\ l_token = FALSE
    /\ l_identity = FALSE
    /\ l_posts = <<>>
    /\ l_me_log = <<>>
    /\ t_pc = "off"
    /\ t_iter = 1
    /\ t_next_card = 0
    /\ t_pending = 0
    /\ t_counts = <<>>
    /\ t_resumed = <<>>
    /\ t_matter_id = FALSE
    /\ t_cause_card = 0
    /\ s_pc = "off"
    /\ s_sse = PyNone
    /\ s_min_starts = 0
    /\ s_called = ""
    /\ k_pc = "off"
    /\ k_max_cards = 0
    /\ k_uploaded = PyNone
    /\ k_consumed = 0
    /\ k_pending = PyNone
    /\ k_payload = PyNone
    /\ k_sent = <<>>
    /\ k_unresolved = FALSE
    /\ k_stop = ""

\* _post_ws(ws_path, msg_type, data, max_attempts=...) is called
InitWs ==
    /\ c_pc = "off"
    /\ c_card = PyNone
    /\ c_overrides = PyNone
    /\ c_uploaded = PyNone
    /\ c_response = PyNone
    /\ c_again = PyNone
    /\ f_pc = "off"
    /\ f_max_steps = 0
    /\ f_predicate = "deliverable"
    /\ f_i = 1
    /\ f_steps = 0
    /\ f_pred_log = <<>>
    /\ f_card = PyNone
    /\ f_matter_id = 0
    /\ f_seen_cards = <<>>
    /\ f_seen_card_signatures = <<>>
    /\ f_seen_sse = <<>>
    /\ f_last_sse = NoSse
    /\ f_uploaded_file_ids = PyList(<<>>)
    /\ f_overrides = PyDict(<<>>)
    /\ f_sent = <<>>
    /\ f_in_flight = 0
    /\ f_trace = <<>>
    /\ r_pending = 0
    /\ r_matter = 0
    /\ r_done = FALSE
    /\ w_pc = "attempt"
    /\ w_max_attempts \in 0..MaxAttempts
    /\ w_attempt = 1
    /\ w_events = <<>>
    /\ w_output = <<>>
    /\ w_last_exc = ""
    /\ w_wire = <<>>
    /\ w_received = <<>>
    /\ w_prior = <<>>
    /\ w_outcomes = <<>>
    /\ w_seq = 0
    /\ w_auth_log = <<>>
    /\ w_exc_log = <<>>
    /\ w_beat = FALSE
    /\ q_pc = "off"
    /\ q_method = "GET"
    /\ q_client = FALSE
    /\ q_get_retries = 0
    /\ q_max_attempts = 0
    /\ q_attempt = 1
    /\ q_last_exc = NoExc
    /\ q_exc = NoExc
    /\ q_result = FALSE
    /\ q_log = <<>>
    /\ q_path = <<>>
    /\ q_internal_api_key = PyNone
    /\ q_session = Anonymous
    /\ q_headers = PyNone
    /\ l_pc = "off"
    /\ l_client = FALSE
    /\ l_max_attempts = 0
    /\ l_attempt = 1
    /\ l_j = 1
    /\ l_last_exc = NoExc
    /\ l_exc = NoExc
    /\ l_token = FALSE
    /\ l_identity = FALSE
    /\ l_posts = <<>>
    /\ l_me_log = <<>>
    /\ t_pc = "off"
    /\ t_iter = 1
    /\ t_next_card = 0
    /\ t_pending = 0
    /\ t_counts = <<>>
    /\ t_resumed = <<>>
    /\ t_matter_id = FALSE
    /\ t_cause_card = 0
    /\ s_pc = "off"
    /\ s_sse = PyNone
    /\ s_min_starts = 0
    /\ s_called = ""
    /\ k_pc = "off"
    /\ k_max_cards = 0
    /\ k_uploaded = PyNone
    /\ k_consumed = 0
    /\ k_pending = PyNone
    /\ k_payload = PyNone
    /\ k_sent = <<>>
    /\ k_unresolved = FALSE
    /\ k_stop = ""

NextCard ==
    \/ ResolveCard
    \/ ResolveCardAgain

SpecCard == InitCard /\ [][NextCard]_vars

NextFlow ==
    \/ RunUntilLoopHead
    \/ Refresh
    \/ GetPendingCard
    \/ ResumeCardSend
    \/ NudgeSend
    \/ ResumeCardReturn
    \/ NudgeReturn

SpecFlow == InitFlow /\ [][NextFlow]_vars

NextWs ==
    \/ WsConnect
    \/ WsAuth
    \/ DrainRecv
    \/ DrainHeartbeat
    \/ DrainTimeout
    \/ DrainFail

SpecWs == InitWs /\ [][NextWs]_vars

\* the event loop keeps running: as long as the call can take a step, it takes one
LiveSpecWs == SpecWs /\ WF_vars(NextWs)

\* _request(method, path) is called
InitReq ==
    /\ c_pc = "off"
    /\ c_card = PyNone
    /\ c_overrides = PyNone
    /\ c_uploaded = PyNone
    /\ c_response = PyNone
    /\ c_again = PyNone
    /\ f_pc = "off"
    /\ f_max_steps = 0
    /\ f_predicate = "deliverable"
    /\ f_i = 1
    /\ f_steps = 0
    /\ f_pred_log = <<>>
    /\ f_card = PyNone
    /\ f_matter_id = 0
    /\ f_seen_cards = <<>>
    /\ f_seen_card_signatures = <<>>
    /\ f_seen_sse = <<>>
    /\ f_last_sse = NoSse
    /\ f_uploaded_file_ids = PyList(<<>>)
    /\ f_overrides = PyDict(<<>>)
    /\ f_sent = <<>>
    /\ f_in_flight = 0
    /\ f_trace = <<>>
    /\ r_pending = 0
    /\ r_matter = 0
    /\ r_done = FALSE
    /\ w_pc = "off"
    /\ w_max_attempts = 0
    /\ w_attempt = 1
    /\ w_events = <<>>
    /\ w_output = <<>>
    /\ w_last_exc = ""
    /\ w_wire = <<>>
    /\ w_received = <<>>
    /\ w_prior = <<>>
    /\ w_outcomes = <<>>
    /\ w_seq = 0
    /\ w_auth_log = <<>>
    /\ w_exc_log = <<>>
    /\ w_beat = FALSE
    /\ q_pc = "start"
    /\ q_method \in MethodInputs
    /\ q_client \in BOOLEAN
    /\ q_get_retries \in 0..MaxGetRetries
    /\ q_max_attempts = 0
    /\ q_attempt = 1
    /\ q_last_exc = NoExc
    /\ q_exc = NoExc
    /\ q_result = FALSE
    /\ q_log = <<>>
    /\ q_path \in PathInputs
    /\ q_internal_api_key \in InternalApiKeyInputs
    /\ q_session \in SessionInputs
    /\ q_headers = PyNone
    /\ l_pc = "off"
    /\ l_client = FALSE
    /\ l_max_attempts = 0
    /\ l_attempt = 1
    /\ l_j = 1
    /\ l_last_exc = NoExc
    /\ l_exc = NoExc
    /\ l_token = FALSE
    /\ l_identity = FALSE
    /\ l_posts = <<>>
    /\ l_me_log = <<>>
    /\ t_pc = "off"
    /\ t_iter = 1
    /\ t_next_card = 0
    /\ t_pending = 0
    /\ t_counts = <<>>
    /\ t_resumed = <<>>
    /\ t_matter_id = FALSE
    /\ t_cause_card = 0
    /\ s_pc = "off"
    /\ s_sse = PyNone
    /\ s_min_starts = 0
    /\ s_called = ""
    /\ k_pc = "off"
    /\ k_max_cards = 0
    /\ k_uploaded = PyNone
    /\ k_consumed = 0
    /\ k_pending = PyNone
    /\ k_payload = PyNone
    /\ k_sent = <<>>
    /\ k_unresolved = FALSE
    /\ k_stop = ""

NextReq ==
    \/ ReqStart
    \/ ReqAttempt
    \/ ReqExhausted

SpecReq == InitReq /\ [][NextReq]_vars

\* login(username, password) is called
InitLogin ==
    /\ c_pc = "off"
    /\ c_card = PyNone
    /\ c_overrides = PyNone
    /\ c_uploaded = PyNone
    /\ c_response = PyNone
    /\ c_again = PyNone
    /\ f_pc = "off"
    /\ f_max_steps = 0
    /\ f_predicate = "deliverable"
    /\ f_i = 1
    /\ f_steps = 0
    /\ f_pred_log = <<>>
    /\ f_card = PyNone
    /\ f_matter_id = 0
    /\ f_seen_cards = <<>>
    /\ f_seen_card_signatures = <<>>
    /\ f_seen_sse = <<>>
    /\ f_last_sse = NoSse
    /\ f_uploaded_file_ids = PyList(<<>>)
    /\ f_overrides = PyDict(<<>>)
    /\ f_sent = <<>>
    /\ f_in_flight = 0
    /\ f_trace = <<>>
    /\ r_pending = 0
    /\ r_matter = 0
    /\ r_done = FALSE
    /\ w_pc = "off"
    /\ w_max_attempts = 0
    /\ w_attempt = 1
    /\ w_events = <<>>
    /\ w_output = <<>>
    /\ w_last_exc = ""
    /\ w_wire = <<>>
    /\ w_received = <<>>
    /\ w_prior = <<>>
    /\ w_outcomes = <<>>
    /\ w_seq = 0
    /\ w_auth_log = <<>>
    /\ w_exc_log = <<>>
    /\ w_beat = FALSE
    /\ q_pc = "off"
    /\ q_method = "GET"
    /\ q_client = FALSE
    /\ q_get_retries = 0
    /\ q_max_attempts = 0
    /\ q_attempt = 1
    /\ q_last_exc = NoExc
    /\ q_exc = NoExc
    /\ q_result = FALSE
    /\ q_log = <<>>
    /\ q_path = <<>>
    /\ q_internal_api_key = PyNone
    /\ q_session = Anonymous
    /\ q_headers = PyNone
    /\ l_pc = "post"
    /\ l_client \in BOOLEAN
    /\ l_max_attempts \in 0..MaxLoginAttempts
    /\ l_attempt = 1
    /\ l_j = 1
    /\ l_last_exc = NoExc
    /\ l_exc = NoExc
    /\ l_token = FALSE
    /\ l_identity = FALSE
    /\ l_posts = <<>>
    /\ l_me_log = <<>>
    /\ t_pc = "off"
    /\ t_iter = 1
    /\ t_next_card = 0
    /\ t_pending = 0
    /\ t_counts = <<>>
    /\ t_resumed = <<>>
    /\ t_matter_id = FALSE
    /\ t_cause_card = 0
    /\ s_pc = "off"
    /\ s_sse = PyNone
    /\ s_min_starts = 0
    /\ s_called = ""
    /\ k_pc = "off"
    /\ k_max_cards = 0
    /\ k_uploaded = PyNone
    /\ k_consumed = 0
    /\ k_pending = PyNone
    /\ k_payload = PyNone
    /\ k_sent = <<>>
    /\ k_unresolved = FALSE
    /\ k_stop = ""

NextLogin ==
    \/ LoginPost
    \/ LoginGetMe
    \/ LoginExhausted

SpecLogin == InitLogin /\ [][NextLogin]_vars

\* the litigation test has resumed the kickoff card and enters its loop with the card of
\* that result, if it had one (lines 445-450)
InitTest ==
    /\ c_pc = "off"
    /\ c_card = PyNone
    /\ c_overrides = PyNone
    /\ c_uploaded = PyNone
    /\ c_response = PyNone
    /\ c_again = PyNone
    /\ f_pc = "off"
    /\ f_max_steps = 0
    /\ f_predicate = "deliverable"
    /\ f_i = 1
    /\ f_steps = 0
    /\ f_pred_log = <<>>
    /\ f_card = PyNone
    /\ f_matter_id = 0
    /\ f_seen_cards = <<>>
    /\ f_seen_card_signatures = <<>>
    /\ f_seen_sse = <<>>
    /\ f_last_sse = NoSse
    /\ f_uploaded_file_ids = PyList(<<>>)
    /\ f_overrides = PyDict(<<>>)
    /\ f_sent = <<>>
    /\ f_in_flight = 0
    /\ f_trace = <<>>
    /\ r_pending = 0
    /\ r_matter = 0
    /\ r_done = FALSE
    /\ w_pc = "off"
    /\ w_max_attempts = 0
    /\ w_attempt = 1
    /\ w_events = <<>>
    /\ w_output = <<>>
    /\ w_last_exc = ""
    /\ w_wire = <<>>
    /\ w_received = <<>>
    /\ w_prior = <<>>
    /\ w_outcomes = <<>>
    /\ w_seq = 0
    /\ w_auth_log = <<>>
    /\ w_exc_log = <<>>
    /\ w_beat = FALSE
    /\ q_pc = "off"
    /\ q_method = "GET"
    /\ q_client = FALSE
    /\ q_get_retries = 0
    /\ q_max_attempts = 0
    /\ q_attempt = 1
    /\ q_last_exc = NoExc
    /\ q_exc = NoExc
    /\ q_result = FALSE
    /\ q_log = <<>>
    /\ q_path = <<>>
    /\ q_internal_api_key = PyNone
    /\ q_session = Anonymous
    /\ q_headers = PyNone
    /\ l_pc = "off"
    /\ l_client = FALSE
    /\ l_max_attempts = 0
    /\ l_attempt = 1
    /\ l_j = 1
    /\ l_last_exc = NoExc
    /\ l_exc = NoExc
    /\ l_token = FALSE
    /\ l_identity = FALSE
    /\ l_posts = <<>>
    /\ l_me_log = <<>>
    /\ t_pc = "head"
    /\ t_iter = 1
    /\ t_next_card \in 0..Len(TestCards)
    /\ t_pending = 0
    /\ t_counts = [sig \in TestSigs |-> 0]
    /\ t_resumed = [sig \in TestSigs |-> 0]
    /\ t_matter_id = FALSE
    /\ t_cause_card = 0
    /\ s_pc = "off"
    /\ s_sse = PyNone
    /\ s_min_starts = 0
    /\ s_called = ""
    /\ k_pc = "off"
    /\ k_max_cards = 0
    /\ k_uploaded = PyNone
    /\ k_consumed = 0
    /\ k_pending = PyNone
    /\ k_payload = PyNone
    /\ k_sent = <<>>
    /\ k_unresolved = FALSE
    /\ k_stop = ""

NextTest ==
    \/ TestLoopHead
    \/ TestAcquire
    \/ TestHandle
    \/ TestResume

SpecTest == InitTest /\ [][NextTest]_vars

\* a stream result is about to be checked
InitSse ==
    /\ c_pc = "off"
    /\ c_card = PyNone
    /\ c_overrides = PyNone
    /\ c_uploaded = PyNone
    /\ c_response = PyNone
    /\ c_again = PyNone
    /\ f_pc = "off"
    /\ f_max_steps = 0
    /\ f_predicate = "deliverable"
    /\ f_i = 1
    /\ f_steps = 0
    /\ f_pred_log = <<>>
    /\ f_card = PyNone
    /\ f_matter_id = 0
    /\ f_seen_cards = <<>>
    /\ f_seen_card_signatures = <<>>
    /\ f_seen_sse = <<>>
    /\ f_last_sse = NoSse
    /\ f_uploaded_file_ids = PyList(<<>>)
    /\ f_overrides = PyDict(<<>>)
    /\ f_sent = <<>>
    /\ f_in_flight = 0
    /\ f_trace = <<>>
    /\ r_pending = 0
    /\ r_matter = 0
    /\ r_done = FALSE
    /\ w_pc = "off"
    /\ w_max_attempts = 0
    /\ w_attempt = 1
    /\ w_events = <<>>
    /\ w_output = <<>>
    /\ w_last_exc = ""
    /\ w_wire = <<>>
    /\ w_received = <<>>
    /\ w_prior = <<>>
    /\ w_outcomes = <<>>
    /\ w_seq = 0
    /\ w_auth_log = <<>>
    /\ w_exc_log = <<>>
    /\ w_beat = FALSE
    /\ q_pc = "off"
    /\ q_method = "GET"
    /\ q_client = FALSE
    /\ q_get_retries = 0
    /\ q_max_attempts = 0
    /\ q_attempt = 1
    /\ q_last_exc = NoExc
    /\ q_exc = NoExc
    /\ q_result = FALSE
    /\ q_log = <<>>
    /\ q_path = <<>>
    /\ q_internal_api_key = PyNone
    /\ q_session = Anonymous
    /\ q_headers = PyNone
    /\ l_pc = "off"
    /\ l_client = FALSE
    /\ l_max_attempts = 0
    /\ l_attempt = 1
    /\ l_j = 1
    /\ l_last_exc = NoExc
    /\ l_exc = NoExc
    /\ l_token = FALSE
    /\ l_identity = FALSE
    /\ l_posts = <<>>
    /\ l_me_log = <<>>
    /\ t_pc = "off"
    /\ t_iter = 1
    /\ t_next_card = 0
    /\ t_pending = 0
    /\ t_counts = <<>>
    /\ t_resumed = <<>>
    /\ t_matter_id = FALSE
    /\ t_cause_card = 0
    /\ s_pc = "ready"
    /\ s_sse \in SseInputs
    /\ s_min_starts \in 0..2
    /\ s_called = ""
    /\ k_pc = "off"
    /\ k_max_cards = 0
    /\ k_uploaded = PyNone
    /\ k_consumed = 0
    /\ k_pending = PyNone
    /\ k_payload = PyNone
    /\ k_sent = <<>>
    /\ k_unresolved = FALSE
    /\ k_stop = ""

NextSse ==
    \/ ValidateTaskEvents
    \/ AssertTaskLifecycle

SpecSse == InitSse /\ [][NextSse]_vars

\* consume_pending_cards(..., max_cards=...) is called
InitConsume ==
    /\ c_pc = "off"
    /\ c_card = PyNone
    /\ c_overrides = PyNone
    /\ c_uploaded = PyNone
    /\ c_response = PyNone
    /\ c_again = PyNone
    /\ f_pc = "off"
    /\ f_max_steps = 0
    /\ f_predicate = "deliverable"
    /\ f_i = 1
    /\ f_steps = 0
    /\ f_pred_log = <<>>
    /\ f_card = PyNone
    /\ f_matter_id = 0
    /\ f_seen_cards = <<>>
    /\ f_seen_card_signatures = <<>>
    /\ f_seen_sse = <<>>
    /\ f_last_sse = NoSse
    /\ f_uploaded_file_ids = PyList(<<>>)
    /\ f_overrides = PyDict(<<>>)
    /\ f_sent = <<>>
    /\ f_in_flight = 0
    /\ f_trace = <<>>
    /\ r_pending = 0
    /\ r_matter = 0
    /\ r_done = FALSE
    /\ w_pc = "off"
    /\ w_max_attempts = 0
    /\ w_attempt = 1
    /\ w_events = <<>>
    /\ w_output = <<>>
    /\ w_last_exc = ""
    /\ w_wire = <<>>
    /\ w_received = <<>>
    /\ w_prior = <<>>
    /\ w_outcomes = <<>>
    /\ w_seq = 0
    /\ w_auth_log = <<>>
    /\ w_exc_log = <<>>
    /\ w_beat = FALSE
    /\ q_pc = "off"
    /\ q_method = "GET"
    /\ q_client = FALSE
    /\ q_get_retries = 0
    /\ q_max_attempts = 0
    /\ q_attempt = 1
    /\ q_last_exc = NoExc
    /\ q_exc = NoExc
    /\ q_result = FALSE
    /\ q_log = <<>>
    /\ q_path = <<>>
    /\ q_internal_api_key = PyNone
    /\ q_session = Anonymous
    /\ q_headers = PyNone
    /\ l_pc = "off"
    /\ l_client = FALSE
    /\ l_max_attempts = 0
    /\ l_attempt = 1
    /\ l_j = 1
    /\ l_last_exc = NoExc
    /\ l_exc = NoExc
    /\ l_token = FALSE
    /\ l_identity = FALSE
    /\ l_posts = <<>>
    /\ l_me_log = <<>>
    /\ t_pc = "off"
    /\ t_iter = 1
    /\ t_next_card = 0
    /\ t_pending = 0
    /\ t_counts = <<>>
    /\ t_resumed = <<>>
    /\ t_matter_id = FALSE
    /\ t_cause_card = 0
    /\ s_pc = "off"
    /\ s_sse = PyNone
    /\ s_min_starts = 0
    /\ s_called = ""
    /\ k_pc = "loop"
    /\ k_max_cards \in 0..MaxCards
    /\ k_uploaded \in {PyList(<<>>), PyList(<<Lit("f1")>>)}
    /\ k_consumed = 0
    /\ k_pending = PyNone
    /\ k_payload = PyNone
    /\ k_sent = <<>>
    /\ k_unresolved = FALSE
    /\ k_stop = ""

NextConsume ==
    \/ ConsumePoll
    \/ ConsumeResumeDone
    \/ ConsumeFinal

SpecConsume == InitConsume /\ [][NextConsume]_vars

(***************************************************************************)
(* Properties of the driver loop                                           *)
(***************************************************************************)
RunUntilCounts ==
    /\ f_steps <= f_max_steps
    /\ f_pc = "returned" =>
         /\ Len(f_pred_log) = f_steps + 1
         /\ f_pred_log[Len(f_pred_log)]
         /\ \A j \in 1..f_steps : ~f_pred_log[j]
    /\ f_pc = "assertion_error" =>
         /\ f_steps = f_max_steps
         /\ Len(f_pred_log) = f_max_steps
         /\ \A j \in 1..f_max_steps : ~f_pred_log[j]

\* steps run_until can still take: iterations left, and the position inside the iteration
RunUntilVariant ==
    6 * (f_max_steps + 1 - f_i)
    + CASE f_pc = "loop" -> 5
        [] f_pc = "refresh" -> 4
        [] f_pc = "pending" -> 3
        [] f_pc = "write" -> 2
        [] f_pc \in {"resume_wait", "nudge_wait"} -> 1
        [] OTHER -> 0

\* C1: run_until terminates for every max_steps >= 0 (each of its steps decreases a natural
\* number); when it returns, the predicate was truthy for the first time at the start of
\* iteration i and exactly i-1 calls of step() were made; when it raises AssertionError the
\* predicate was falsy max_steps times and exactly max_steps calls of step() were made; it
\* never makes more than max_steps calls of step().
C1_RunUntilTerminates ==
    /\ [](RunUntilCounts /\ RunUntilVariant \in Nat)
    /\ [][RunUntilVariant' < RunUntilVariant]_vars

\* C1 witness: run_until returned on its third iteration, after two steps
C1_ReturnedAfterTwoSteps == f_pc = "returned" /\ f_steps = 2 /\ Len(f_pred_log) = 3

ResumesOfSignature(sig) ==
    Cardinality({i \in 1..Len(f_sent) :
                    f_sent[i].type = "resume" /\ card_signature(f_sent[i].card) = sig})

\* C2: a pending card whose structural signature has already been seen StuckThreshold times
\* is not answered and resumed again: no signature is resumed more than StuckThreshold times.
C2_StuckCardIsNotResumed ==
    \A i \in 1..Len(f_seen_card_signatures) :
        ResumesOfSignature(f_seen_card_signatures[i]) <= StuckThreshold

\* positions of the trace holding a call of one kind
CallsOf(ops) == {k \in 1..Len(f_trace) : f_trace[k].op \in ops}

\* a call of one of these kinds was made earlier in the same iteration
EarlierInIteration(k, ops) ==
    \E j \in CallsOf(ops) : j < k /\ f_trace[j].i = f_trace[k].i

\* C27: in every iteration the session binding is refreshed before the predicate is
\* evaluated, and the predicate is evaluated before the pending card is queried and a
\* resume or nudge is sent.
C27_RefreshBeforePredicate ==
    /\ \A k \in CallsOf({"predicate"}) : EarlierInIteration(k, {"refresh"})
    /\ \A k \in CallsOf({"poll", "resume", "chat"}) : EarlierInIteration(k, {"predicate"})

\* the number of polls the litigation test makes before it nudges
PendingPolls == 6

\* the pending-card queries made in the iteration of call k before it
PollsBefore(k) == {j \in CallsOf({"poll"}) : j < k /\ f_trace[j].i = f_trace[k].i}

\* C28: a nudge is sent only after the pending card has been queried several times, a
\* fixed bounded number, in the same step; one empty answer is never enough.
C28_NudgeOnlyAfterPolling ==
    \A k \in CallsOf({"chat"}) :
        /\ Cardinality(PollsBefore(k)) >= 2
        /\ Cardinality(PollsBefore(k)) <= PendingPolls

\* C29: at most one write is in flight; between two writes the first one has returned or
\* raised and the pending card has been queried after that; no query is made while a
\* write is in flight.
C29_OneWriteInFlight ==
    /\ f_in_flight \in {0, 1}
    /\ \A k, l \in CallsOf({"resume", "chat"}) :
           k < l => \E d \in CallsOf({"done"}), q \in CallsOf({"poll"}) : k < d /\ d < q /\ q < l
    /\ \A q \in CallsOf({"poll", "refresh", "predicate"}) :
           Cardinality({k \in CallsOf({"resume", "chat"}) : k < q})
               = Cardinality({d \in CallsOf({"done"}) : d < q})

\* C29 witness: a resume has returned and a second write, a nudge, is in flight
C29_SecondWriteInFlight ==
    /\ f_in_flight = 1
    /\ Cardinality(CallsOf({"resume"})) = 1
    /\ Cardinality(CallsOf({"chat"})) = 1
    /\ f_pc = "nudge_wait"

\* C34: the predicate is evaluated again after every step, the last one included: when
\* run_until raises "Failed to reach" after having made its max_steps steps, the predicate
\* does not hold (had step number max_steps made it true, run_until would have returned).
C34_PredicateCheckedAfterLastStep ==
    (f_pc = "assertion_error" /\ f_steps >= 1) => ~Predicate

\* the writes (resume or chat) made in iteration i
WritesIn(i) == {k \in CallsOf({"resume", "chat"}) : f_trace[k].i = i}

\* C35: each step issues exactly one write, made right after the pending-card query of
\* that step: a resume answering the queried card iff the query returned one, otherwise
\* one chat nudge.
C35_OneWritePerStep ==
    /\ \A i \in 1..f_max_steps :
           /\ Cardinality(WritesIn(i)) <= 1
           /\ i < f_i => Cardinality(WritesIn(i)) = 1
    /\ Len(f_sent) = Cardinality(CallsOf({"resume", "chat"}))
    /\ \A k \in CallsOf({"resume", "chat"}) :
           k > 1 /\ f_trace[k - 1] = Call("poll", f_trace[k].i)
    /\ f_pc \in {"resume_wait", "nudge_wait"} =>
           LET w == f_sent[Len(f_sent)]
           IN /\ (w.type = "resume") <=> Truthy(f_card)
              /\ (w.type = "chat") <=> ~Truthy(f_card)
              /\ (f_pc = "resume_wait") <=> (w.type = "resume")
              /\ w.type = "resume" =>
                     /\ w.card = f_card
                     /\ w.body = auto_answer_card(f_card, f_overrides, f_uploaded_file_ids)
              /\ w.type = "chat" => w.body = _NUDGE_TEXT

\* C35 witness: a step that resumed a card and a step that nudged have both completed
C35_ResumeStepAndNudgeStep ==
    /\ f_i >= 3
    /\ \E j \in 1..Len(f_sent) : f_sent[j].type = "resume"
    /\ \E j \in 1..Len(f_sent) : f_sent[j].type = "chat"

\* C36: once bound, matter_id is never reset to null, and it only changes to the matter_id
\* that the session response just read reports.
C36_MatterIdMonotone ==
    [][ /\ f_matter_id # 0 => f_matter_id' # 0
        /\ f_matter_id' # f_matter_id => (r_matter # 0 /\ f_matter_id' = r_matter) ]_vars

\* C36 witness: a refresh has just read a session response without matter_id on a flow
\* that was bound before
C36_RefreshedWithoutMatterId ==
    /\ f_pc = "pending"
    /\ r_matter = 0
    /\ f_matter_id # 0

\* the number of resumes among the first j writes
ResumesUpTo(j) == Cardinality({k \in 1..j : f_sent[k].type = "resume"})

\* C37: seen_cards and seen_card_signatures run in parallel, every card whose resume was
\* sent is recorded (also when the resume raised), seen_sse is no longer than the number
\* of writes made, and last_sse is null or the last element of seen_sse.
C37_AuditTrailConsistent ==
    /\ Len(f_seen_cards) = Len(f_seen_card_signatures)
    /\ \A i \in 1..Len(f_seen_cards) :
           f_seen_card_signatures[i] = card_signature(f_seen_cards[i])
    /\ Len(f_seen_cards) = Cardinality(CallsOf({"resume"}))
    /\ \A j \in 1..Len(f_sent) :
           f_sent[j].type = "resume" => f_seen_cards[ResumesUpTo(j)] = f_sent[j].card
    /\ Len(f_seen_sse) <= Len(f_sent)
    /\ \/ f_last_sse = NoSse
       \/ f_seen_sse # <<>> /\ f_last_sse = f_seen_sse[Len(f_seen_sse)]

\* C37 witness: a first resume returned, a second one raised and its card stays recorded
C37_SecondResumeRaised ==
    /\ f_pc = "raised"
    /\ f_trace[Len(f_trace)].op = "done"
    /\ Len(f_seen_cards) = 2
    /\ Len(f_seen_sse) = 1
    /\ f_last_sse # NoSse

(***************************************************************************)
(* Properties of the card resolution engine                                *)
(***************************************************************************)
\* null, an empty or blank string, or an empty list
IsEmptyValue(v) ==
    \/ v = PyNone
    \/ (v.t = "str" /\ Strip(v.s) = <<>>)
    \/ (v.t = "list" /\ v.l = <<>>)

QuestionsOfCard(card) ==
    IF Get(card, "questions").t = "list" THEN Get(card, "questions").l ELSE <<>>

IsRequiredQuestion(q) ==
    q.t = "dict" /\ Truthy(Get(q, "required")) /\ FieldKeyOf(q) # <<>>

AnswersOf(response) == Get(response, "answers").l

\* every required question of card has an answer in response, and none of them is empty
RequiredAnswersNonEmpty(card, response) ==
    \A i \in 1..Len(QuestionsOfCard(card)) :
        LET q == QuestionsOfCard(card)[i]
        IN IsRequiredQuestion(q) =>
             /\ \E a \in 1..Len(AnswersOf(response)) :
                    Get(AnswersOf(response)[a], "field_key") = PyStr(FieldKeyOf(q))
             /\ \A a \in 1..Len(AnswersOf(response)) :
                    Get(AnswersOf(response)[a], "field_key") = PyStr(FieldKeyOf(q))
                        => ~IsEmptyValue(Get(AnswersOf(response)[a], "value"))

\* C3: for every card, override map and uploaded-file-id list, every question with
\* required=true and a non-empty field_key gets an answer whose value is not null, not a
\* blank string and not an empty list.
C3_RequiredAnswersNeverEmpty ==
    c_pc = "resolved" => RequiredAnswersNonEmpty(c_card, c_response)

\* the override map auto_answer_card works with
GivenOverrides == IF c_overrides = PyNone THEN PyDict(<<>>) ELSE c_overrides

\* a marker for "no value", distinct from every Python value
Missing == [PyNone EXCEPT !.t = "missing"]

\* position of the first dot of a tokenised path, or one past its end
DotPos(path) ==
    IF \E i \in 1..Len(path) : path[i] = "."
    THEN CHOOSE i \in 1..Len(path) : path[i] = "." /\ \A j \in 1..(i - 1) : path[j] # "."
    ELSE Len(path) + 1

\* v indexed by a dotted path, one segment after the other
RECURSIVE PathIndex(_, _)
PathIndex(v, path) ==
    IF path = <<>> THEN v
    ELSE LET seg == SubSeq(path, 1, DotPos(path) - 1)
             rest == SubSeq(path, DotPos(path) + 1, Len(path))
         IN IF v.t = "dict" /\ HasKey(v, seg) THEN PathIndex(Index(v, seg), rest) ELSE Missing

\* does the override item at position i hold field_key's value under the remaining path
PathHit(field_key, overrides, i) ==
    LET k == overrides.d[i].k
        v == overrides.d[i].v
    IN /\ k # <<>>
       /\ v.t = "dict"
       /\ StartsWith(field_key, k \o <<".">>)
       /\ Len(field_key) > Len(k) + 1
       /\ PathIndex(v, SubSeq(field_key, Len(k) + 2, Len(field_key))) # Missing

\* the nested override of field_key: the first prefix key whose map holds the remaining path
PathOverride(field_key, overrides) ==
    IF \E i \in 1..Len(overrides.d) : PathHit(field_key, overrides, i)
    THEN LET i == CHOOSE i \in 1..Len(overrides.d) :
                     /\ PathHit(field_key, overrides, i)
                     /\ \A j \in 1..(i - 1) : ~PathHit(field_key, overrides, j)
             k == overrides.d[i].k
         IN PathIndex(overrides.d[i].v, SubSeq(field_key, Len(k) + 2, Len(field_key)))
    ELSE Missing

\* a default that is not null and not empty
IsUsableDefault(v) == ~IsEmptyValue(v) /\ ~(v.t = "dict" /\ v.d = <<>>)

\* the elements of card.questions that are questions with a field key
KeyedQuestions(card) ==
    {i \in 1..Len(QuestionsOfCard(card)) :
        QuestionsOfCard(card)[i].t = "dict" /\ FieldKeyOf(QuestionsOfCard(card)[i]) # <<>>}

\* positions of the answers given for a field key
AnswersFor(response, fk) ==
    {a \in 1..Len(AnswersOf(response)) : Get(AnswersOf(response)[a], "field_key") = PyStr(fk)}

\* the field key is answered, and with this value
AnsweredWith(response, fk, value) ==
    /\ AnswersFor(response, fk) # {}
    /\ \A a \in AnswersFor(response, fk) : Get(AnswersOf(response)[a], "value") = value

\* what the resolution order settles before any heuristic: the exact override, else the
\* nested override, else the usable default
ValueByOrder(q, overrides) ==
    IF HasKey(overrides, FieldKeyOf(q)) THEN Index(overrides, FieldKeyOf(q))
    ELSE IF PathOverride(FieldKeyOf(q), overrides) # Missing
    THEN PathOverride(FieldKeyOf(q), overrides)
    ELSE IF IsUsableDefault(Get(q, "default")) THEN Get(q, "default")
    ELSE Missing

\* C16: each question is resolved in strict order, first match wins: the exact override,
\* then the nested override, then the declared default, and only then a heuristic; an
\* exact override that is present is the answer whatever else the question carries.
C16_StrictResolutionOrder ==
    c_pc = "resolved" =>
        \A i \in KeyedQuestions(c_card) :
            LET q == QuestionsOfCard(c_card)[i]
            IN ValueByOrder(q, GivenOverrides) # Missing =>
                   AnsweredWith(c_response, FieldKeyOf(q), ValueByOrder(q, GivenOverrides))

\* C17: without an exact override, a field key that an override key with a map value
\* prefixes is answered with that map indexed by the remaining path, segment by segment.
C17_NestedOverrideByPath ==
    c_pc = "resolved" =>
        \A i \in KeyedQuestions(c_card) :
            LET fk == FieldKeyOf(QuestionsOfCard(c_card)[i])
            IN (~HasKey(GivenOverrides, fk) /\ PathOverride(fk, GivenOverrides) # Missing) =>
                   AnsweredWith(c_response, fk, PathOverride(fk, GivenOverrides))

NoOverrideFor(fk) == ~HasKey(GivenOverrides, fk) /\ PathOverride(fk, GivenOverrides) = Missing

\* C18: a question without a matching override and with a usable default is answered with
\* exactly that default, whatever its input type and field key.
C18_DefaultBeforeHeuristics ==
    c_pc = "resolved" =>
        \A i \in KeyedQuestions(c_card) :
            LET q == QuestionsOfCard(c_card)[i]
            IN (NoOverrideFor(FieldKeyOf(q)) /\ IsUsableDefault(Get(q, "default"))) =>
                   AnsweredWith(c_response, FieldKeyOf(q), Get(q, "default"))

\* every element of card.questions is a question with a usable default, and no field key
\* occurs twice
AllDefaultsUsable(card) ==
    /\ QuestionsOfCard(card) # <<>>
    /\ \A i \in 1..Len(QuestionsOfCard(card)) :
           /\ QuestionsOfCard(card)[i].t = "dict"
           /\ IsUsableDefault(Get(QuestionsOfCard(card)[i], "default"))
    /\ \A i, j \in 1..Len(QuestionsOfCard(card)) :
           i # j => FieldKeyOf(QuestionsOfCard(card)[i]) # FieldKeyOf(QuestionsOfCard(card)[j])

\* C19: for a card with unique field keys whose questions all carry a usable default, and
\* no overrides, there is exactly one answer per required field key and none of these
\* answers is null, an empty string or an empty list.
C19_UsableDefaultsAnswerRequired ==
    (c_pc = "resolved" /\ c_overrides = PyNone /\ AllDefaultsUsable(c_card)) =>
        \A i \in 1..Len(QuestionsOfCard(c_card)) :
            LET q == QuestionsOfCard(c_card)[i]
            IN IsRequiredQuestion(q) =>
                   /\ Cardinality(AnswersFor(c_response, FieldKeyOf(q))) = 1
                   /\ \A a \in AnswersFor(c_response, FieldKeyOf(q)) :
                          ~IsEmptyValue(Get(AnswersOf(c_response)[a], "value"))

\* C19 witness: a resolved two-question card, both questions required and with defaults
C19_TwoRequiredDefaults ==
    /\ c_pc = "resolved"
    /\ c_overrides = PyNone
    /\ AllDefaultsUsable(c_card)
    /\ Len(QuestionsOfCard(c_card)) = 2
    /\ \A i \in 1..2 : IsRequiredQuestion(QuestionsOfCard(c_card)[i])
    /\ Len(AnswersOf(c_response)) = 2

\* positions of the options flagged recommended = true
RecommendedFlagged(q) ==
    {i \in 1..Len(OptionsOf(q)) :
        OptionsOf(q)[i].t = "dict" /\ Get(OptionsOf(q)[i], "recommended") = PyBool(TRUE)}

TheRecommended(q) == OptionsOf(q)[CHOOSE i \in RecommendedFlagged(q) : TRUE]

\* a multi-select question with no override, no usable default and one recommended option
OneRecommendedMultiSelect(q) ==
    /\ InputTypeOf(q) \in {<<"multi_select">>, <<"multiple_select">>}
    /\ NoOverrideFor(FieldKeyOf(q))
    /\ ~IsUsableDefault(Get(q, "default"))
    /\ Cardinality(RecommendedFlagged(q)) = 1

IsMultiSelect(q) == InputTypeOf(q) \in {<<"multi_select">>, <<"multiple_select">>}

\* C21: a multi-select question with no override, no default and no option flagged
\* recommended is answered with the empty list, even when options carry values.
C21_NoRecommendedGivesEmptyList ==
    c_pc = "resolved" =>
        \A i \in KeyedQuestions(c_card) :
            LET q == QuestionsOfCard(c_card)[i]
            IN (/\ IsMultiSelect(q)
                /\ NoOverrideFor(FieldKeyOf(q))
                /\ ~IsUsableDefault(Get(q, "default"))
                /\ RecommendedFlagged(q) = {}) =>
                   AnsweredWith(c_response, FieldKeyOf(q), PyList(<<>>))

\* a question of input type file_ids / file_id, or with field key attachment_file_ids
IsFileQuestion(q) ==
    \/ InputTypeOf(q) \in {<<"file_ids">>, <<"file_id">>}
    \/ FieldKeyOf(q) = <<"attachment_file_ids">>

\* the caller's uploaded_file_ids list
UploadedIds == IF c_uploaded = PyNone THEN <<>> ELSE c_uploaded.l

\* the list holds ids only: non-blank strings without surrounding whitespace
AllProperIds ==
    \A i \in 1..Len(UploadedIds) :
        /\ UploadedIds[i].t = "str"
        /\ UploadedIds[i].s # <<>>
        /\ Strip(UploadedIds[i].s) = UploadedIds[i].s

\* C22: a file question with no override and no default is answered with the full
\* uploaded_file_ids list whenever that list is non-empty, required or optional and
\* whatever the skill_id; with no uploads an optional file question is answered with [].
C22_FileQuestionsGetUploads ==
    c_pc = "resolved" =>
        \A i \in KeyedQuestions(c_card) :
            LET q == QuestionsOfCard(c_card)[i]
            IN (/\ IsFileQuestion(q)
                /\ NoOverrideFor(FieldKeyOf(q))
                /\ ~IsUsableDefault(Get(q, "default"))) =>
                   /\ (UploadedIds # <<>> /\ AllProperIds) =>
                          AnsweredWith(c_response, FieldKeyOf(q), PyList(UploadedIds))
                   /\ (UploadedIds = <<>> /\ ~Truthy(Get(q, "required"))) =>
                          AnsweredWith(c_response, FieldKeyOf(q), PyList(<<>>))

IsOptionalQuestion(q) == ~Truthy(Get(q, "required"))

\* C23: no answer given for an optional question has a null value; an optional question
\* whose resolved value is null has no answer at all.
C23_OptionalNeverNull ==
    c_pc = "resolved" =>
        \A i \in KeyedQuestions(c_card) :
            LET q == QuestionsOfCard(c_card)[i]
            IN IsOptionalQuestion(q) =>
                   \A a \in AnswersFor(c_response, FieldKeyOf(q)) :
                       Get(AnswersOf(c_response)[a], "value") # PyNone

\* C23 witness: an optional text question without override, default or table entry is
\* left out of the answers
C23_OptionalLeftOut ==
    /\ c_pc = "resolved"
    /\ c_overrides = PyNone
    /\ Len(QuestionsOfCard(c_card)) = 1
    /\ \E i \in KeyedQuestions(c_card) :
           LET q == QuestionsOfCard(c_card)[i]
           IN /\ IsOptionalQuestion(q)
              /\ InputTypeOf(q) = <<"text">>
              /\ Get(q, "default") = PyNone
              /\ FieldKeyOf(q) = <<"choice">>
    /\ AnswersOf(c_response) = <<>>

\* C24: no answer given for an optional question has the value null, "" or []: such a
\* question is dropped from the answers.
C24_OptionalNeverEmpty ==
    c_pc = "resolved" =>
        \A i \in KeyedQuestions(c_card) :
            LET q == QuestionsOfCard(c_card)[i]
            IN IsOptionalQuestion(q) =>
                   \A a \in AnswersFor(c_response, FieldKeyOf(q)) :
                       Get(AnswersOf(c_response)[a], "value")
                           \notin {PyNone, PyStr(<<>>), PyList(<<>>)}

RealSends == {i \in 1..Len(w_wire) : w_wire[i].type = "message"}

\* C4: once the real message has been sent, a failure while reading is not retried: the
\* message is sent at most once per call and the call does not raise after sending it.
C4_NoResendAfterStreaming ==
    /\ Cardinality(RealSends) <= 1
    /\ w_pc = "raised" => RealSends = {}

\* the event a received frame is surfaced as
FrameAsEvent(frame) ==
    [PyNone EXCEPT !.t = "dict",
                   !.d = << [k |-> <<"event">>, v |-> Get(frame, "event")],
                            [k |-> <<"data">>,
                             v |-> IF HasKey(frame, <<"data">>) THEN Get(frame, "data")
                                   ELSE frame] >>]

IsPingFrame(frame) == Get(frame, "event") = PyStr(<<"ping">>)

IsTerminalFrame(frame) == Get(frame, "event") \in {PyStr(<<"end">>), PyStr(<<"complete">>)}

RECURSIVE WithoutPings(_)
WithoutPings(frames) ==
    IF frames = <<>> THEN <<>>
    ELSE (IF IsPingFrame(Head(frames)) THEN <<>> ELSE <<FrameAsEvent(Head(frames))>>)
         \o WithoutPings(Tail(frames))

\* {event: "error", data: {error: "timeout", partial: true}}
PartialSentinel ==
    [PyNone EXCEPT !.t = "dict",
                   !.d = << [k |-> <<"event">>, v |-> PyStr(<<"error">>)],
                            [k |-> <<"data">>,
                             v |-> [PyNone EXCEPT !.t = "dict",
                                       !.d = << [k |-> <<"error">>, v |-> PyStr(<<"timeout">>)],
                                                [k |-> <<"partial">>, v |-> PyBool(TRUE)] >>]] >>]

LastOutcome == IF w_outcomes = <<>> THEN "none" ELSE w_outcomes[Len(w_outcomes)]

\* C5: after a per-event read timeout in the drain loop the call has returned (it neither
\* raised nor started another attempt), its events are the events received so far followed
\* by exactly one {event: "error", data: {error: "timeout", partial: true}}, and output is "".
C5_ReadTimeoutIsAbsorbed ==
    LastOutcome = "timeout" =>
        /\ w_pc = "returned"
        /\ w_events = WithoutPings(w_received) \o <<PartialSentinel>>
        /\ w_output = <<>>
        /\ w_attempt = Len(w_outcomes)

\* C5 witness: one progress event, then a read timeout
C5_ProgressThenTimeout ==
    /\ w_pc = "returned"
    /\ LastOutcome = "timeout"
    /\ Len(w_events) = 2
    /\ Get(w_events[1], "event") = PyStr(<<"progress">>)

IsTerminalEvent(e) == Get(e, "event") \in {PyStr(<<"end">>), PyStr(<<"complete">>)}

\* C6: every attempt ends in exactly one of: a returned result whose last event is end or
\* complete, a returned result whose last event is the partial-termination sentinel, or an
\* exception; a returned events list is never empty and none of its events but the last is
\* an end/complete event or the sentinel.
C6_ThreeOutcomes ==
    /\ \A i \in 1..Len(w_outcomes) : w_outcomes[i] \in {"terminal", "timeout", "exception"}
    /\ Len(w_outcomes) = IF w_pc \in {"returned", "raised"} /\ w_max_attempts > 0
                         THEN w_attempt ELSE w_attempt - 1
    /\ w_pc = "raised" => LastOutcome \in {"exception", "none"}
    /\ w_pc \in {"attempt", "auth_wait", "draining"} => LastOutcome \in {"exception", "none"}
    /\ w_pc = "returned" =>
         /\ LastOutcome \in {"terminal", "timeout"}
         /\ w_events # <<>>
         /\ LastOutcome = "terminal" <=> IsTerminalEvent(w_events[Len(w_events)])
         /\ LastOutcome = "timeout" <=> w_events[Len(w_events)] = PartialSentinel
         /\ \A i \in 1..(Len(w_events) - 1) :
                ~IsTerminalEvent(w_events[i]) /\ w_events[i] # PartialSentinel

\* C6 witness: an attempt that raised was followed by one that returned a terminal event
C6_ReturnedAfterException ==
    /\ w_pc = "returned"
    /\ w_outcomes = <<"exception", "terminal">>
    /\ Len(w_events) >= 2

\* C7: the drain loop stops with the first end/complete frame: that frame is the last one
\* received on the connection and the call has returned.
C7_StopsAtFirstTerminal ==
    \A i \in 1..Len(w_received) :
        IsTerminalFrame(w_received[i]) => i = Len(w_received) /\ w_pc = "returned"

\* C7 witness: a complete frame ended a call that had received other frames before it
C7_CompleteEndsCall ==
    /\ w_pc = "returned"
    /\ Len(w_received) >= 2
    /\ Get(w_received[Len(w_received)], "event") = PyStr(<<"complete">>)

\* the events of a result that come from frames
FrameEvents ==
    IF LastOutcome = "timeout" /\ w_events # <<>>
    THEN SubSeq(w_events, 1, Len(w_events) - 1)
    ELSE w_events

PingArrives ==
    /\ Len(w_received') = Len(w_received) + 1
    /\ IsPingFrame(w_received'[Len(w_received')])

\* C8: a ping frame is never appended to events and never ends the drain loop; the events
\* taken from frames are the received frames with the ping frames removed.
C8_PingNeverSurfaces ==
    /\ [](\A i \in 1..Len(w_events) : Get(w_events[i], "event") # PyStr(<<"ping">>))
    /\ [](w_pc \in {"draining", "returned"} => FrameEvents = WithoutPings(w_received))
    /\ [][PingArrives => (w_pc' = "draining" /\ w_events' = w_events)]_vars

\* C8 witness: a result whose connection delivered pings between other frames
C8_PingsInterleaved ==
    /\ w_pc = "returned"
    /\ Len(w_received) = 3
    /\ IsPingFrame(w_received[2])
    /\ ~IsPingFrame(w_received[1])
    /\ Len(w_events) = 2

\* output the result should carry
ExpectedOutput ==
    LET terminals == {i \in 1..Len(w_events) : IsTerminalEvent(w_events[i])}
    IN IF terminals = {} THEN <<>>
       ELSE LET last == CHOOSE i \in terminals : \A j \in terminals : j <= i
                data == Get(w_events[last], "data")
            IN IF data.t = "dict" /\ HasKey(data, <<"output">>)
                  /\ Get(data, "output") \notin {PyNone, PyStr(<<>>)}
               THEN StrOf(Get(data, "output"))
               ELSE <<>>

OrderMaps(n, m) ==
    {f \in [1..n -> 1..m] : \A i, j \in 1..n : i < j => f[i] < f[j]}

\* C10: the events taken from frames are non-ping frames of the current connection, in
\* their order of arrival, and none of them comes from a frame of an earlier attempt.
C10_ArrivalOrderPerAttempt ==
    w_pc \in {"draining", "returned"} =>
        /\ \E f \in OrderMaps(Len(FrameEvents), Len(w_received)) :
               \A i \in 1..Len(FrameEvents) :
                   /\ ~IsPingFrame(w_received[f[i]])
                   /\ FrameEvents[i] = FrameAsEvent(w_received[f[i]])
        /\ \A i \in 1..Len(FrameEvents), j \in 1..Len(w_prior) :
               FrameEvents[i] # FrameAsEvent(w_prior[j])

\* C10 witness: the returning attempt follows one that had received frames and then failed
C10_SecondAttemptReturns ==
    /\ w_pc = "returned"
    /\ w_attempt = 2
    /\ Len(w_prior) >= 1
    /\ Len(w_events) >= 2

\* the attempts whose auth frame was answered by something else than auth_success, or by
\* nothing within the auth timeout
RefusedAttempts ==
    {w_auth_log[i].attempt : i \in {j \in 1..Len(w_auth_log) : w_auth_log[j].reply # "auth_success"}}

\* the attempts whose auth frame was answered by auth_success
AcceptedAttempts ==
    {w_auth_log[i].attempt : i \in {j \in 1..Len(w_auth_log) : w_auth_log[j].reply = "auth_success"}}

\* C11: on every connection the first frame sent is the auth frame; the real message is
\* sent only right after that auth frame and only once auth_success has answered it; an
\* attempt whose auth frame got another answer, or none in time, sends no real message.
C11_AuthBeforeMessage ==
    /\ \A i \in 1..Len(w_wire) :
           (\A j \in 1..(i - 1) : w_wire[j].attempt # w_wire[i].attempt)
               => w_wire[i].type = "auth"
    /\ \A i \in RealSends :
           /\ i > 1
           /\ w_wire[i - 1] = [attempt |-> w_wire[i].attempt, type |-> "auth"]
           /\ w_wire[i].attempt \in AcceptedAttempts
    /\ \A i \in RealSends : w_wire[i].attempt \notin RefusedAttempts
    /\ \A a \in RefusedAttempts :
           \E k \in 1..Len(w_exc_log) : w_exc_log[k].attempt = a

\* C11 witness: the first connection's auth frame is refused, the second one's is accepted
\* and the real message has gone out on the second connection only
C11_RefusedThenAccepted ==
    /\ 1 \in RefusedAttempts
    /\ 2 \in AcceptedAttempts
    /\ \E i \in RealSends : w_wire[i].attempt = 2
    /\ Cardinality(RealSends) = 1

\* connection attempts started so far: the finished ones and the one in progress
AttemptsStarted ==
    Len(w_outcomes) + (IF w_pc \in {"auth_wait", "draining"} THEN 1 ELSE 0)

\* C12: at most max_attempts connection attempts are made; every exception leads to a new
\* attempt while attempts remain; the call returns with the first attempt that completes,
\* and when all attempts raise it raises the exception of the last attempt.
C12_RetryOnAnyException ==
    /\ AttemptsStarted <= w_max_attempts
    /\ \A k \in 1..Len(w_exc_log) : w_exc_log[k].attempt = k
    /\ w_pc = "returned" =>
           /\ w_attempt = Len(w_outcomes)
           /\ Len(w_exc_log) = w_attempt - 1
           /\ \A k \in 1..(Len(w_outcomes) - 1) : w_outcomes[k] = "exception"
           /\ LastOutcome # "exception"
    /\ (w_pc = "raised" /\ w_max_attempts >= 1) =>
           /\ Len(w_exc_log) = w_max_attempts
           /\ \A k \in 1..Len(w_outcomes) : w_outcomes[k] = "exception"
           /\ w_last_exc = w_exc_log[w_max_attempts].exc

\* C12 witness: every attempt raised, the last one differently from the first
C12_AllAttemptsRaise ==
    /\ w_pc = "raised"
    /\ w_max_attempts = 2
    /\ Len(w_exc_log) = 2
    /\ w_exc_log[1].exc # w_exc_log[2].exc

(***************************************************************************)
(* Properties of _request and login                                        *)
(***************************************************************************)
IsGet == Upper(q_method) = "GET"

\* a gateway status 502/503/504 or a network-level request error
IsRetryableOutcome(o) == o.kind = "RequestError" \/ o.code \in {502, 503, 504}

\* an error status other than 502/503/504
IsNonRetryableStatus(o) == o.kind = "response" /\ o.code >= 400 /\ o.code \notin {502, 503, 504}

\* the error an attempt ends with when nothing follows it
ErrorOf(o) ==
    IF o.kind = "RequestError" THEN Exc("RequestError", 0)
    ELSE IF o.code >= 400 THEN Exc("HTTPStatusError", o.code)
    ELSE Exc("JSONDecodeError", 0)

LastAttempt == q_log[Len(q_log)]

\* C13: a GET is issued at most E2E_HTTP_GET_RETRIES times; an attempt is followed by
\* another one only if it met 502/503/504 or a request error and attempts remained; once
\* the budget is used up the call raises the error of the final attempt; every other
\* method issues exactly one HTTP attempt whatever it meets.
C13_GetRetryBudget ==
    /\ IsGet => Len(q_log) <= q_get_retries
    /\ ~IsGet => Len(q_log) <= 1
    /\ (~IsGet /\ q_client /\ q_pc \in {"returned", "raised"}) => Len(q_log) = 1
    /\ \A i \in 1..(Len(q_log) - 1) : IsRetryableOutcome(q_log[i])
    /\ (q_pc = "loop" /\ Len(q_log) >= 1) =>
           /\ IsRetryableOutcome(LastAttempt)
           /\ Len(q_log) < q_get_retries
    /\ (q_pc = "raised" /\ Len(q_log) >= 1) => q_exc = ErrorOf(LastAttempt)
    /\ (q_pc = "raised" /\ IsGet /\ Len(q_log) >= 1 /\ IsRetryableOutcome(LastAttempt)) =>
           Len(q_log) = q_get_retries

\* C13 witness: a GET with a budget of three meets 502/503/504 or request errors three
\* times and raises the third attempt's error
C13_GetBudgetExhausted ==
    /\ IsGet
    /\ q_get_retries = 3
    /\ Len(q_log) = 3
    /\ q_log[1] = RequestError
    /\ q_pc = "raised"
    /\ q_exc = Exc("HTTPStatusError", 503)

\* C14: an attempt that meets an error status other than 502/503/504 is the last attempt,
\* and the call raises that status' error, for every method and every remaining budget.
C14_NonRetryableRaisesAtOnce ==
    \A i \in 1..Len(q_log) :
        IsNonRetryableStatus(q_log[i]) =>
            /\ i = Len(q_log)
            /\ q_pc = "raised"
            /\ q_exc = Exc("HTTPStatusError", q_log[i].code)

\* C14 witness: a GET with a budget of three is retried once after a 502, meets a 500 on
\* its second attempt and raises with one attempt left
C14_Status500EndsGet ==
    /\ IsGet
    /\ q_get_retries = 3
    /\ Len(q_log) = 2
    /\ q_log[1] = Response(502, TRUE)
    /\ q_log[2] = Response(500, TRUE)
    /\ q_pc = "raised"

\* a 4xx answer to the login POST
IsRejectedLogin(o) == o.kind = "response" /\ o.code >= 400 /\ o.code <= 499

\* a get_me() that raised for a status outside 500/502/503/504
IsRejectedIdentity(o) ==
    o.kind = "exception" /\ o.exc.kind = "HTTPStatusError" /\ o.exc.code \notin {500, 502, 503, 504}

\* C15: a login POST answered by a 4xx, or an identity fetch rejected with a non-transient
\* status, ends the call: login raises and no login POST follows the one that was rejected.
C15_RejectionIsFatal ==
    /\ \A i \in 1..Len(l_posts) :
           IsRejectedLogin(l_posts[i]) => (i = Len(l_posts) /\ l_pc = "raised")
    /\ \A k \in 1..Len(l_me_log) :
           IsRejectedIdentity(l_me_log[k].outcome) =>
               (Len(l_posts) = l_me_log[k].attempt /\ l_pc = "raised")

\* a privileged route: /{service}/api/v1/internal/...
IsInternalRoute(path) == \E i \in 1..Len(path) : path[i] = "/internal"

\* C30: a request for a route that is not internal never carries X-Internal-Api-Key, even
\* when INTERNAL_API_KEY is configured.
C30_InternalKeyOnInternalRoutesOnly ==
    (q_headers # PyNone /\ ~IsInternalRoute(q_path)) =>
        ~HasKey(q_headers, <<"X-Internal-Api-Key">>)

\* C38: a failure that _request or _post_ws raises to the caller is the error of a real
\* attempt: whatever the retry budget, at least one HTTP request (one connection attempt)
\* is made before the call fails.
C38_FailureFollowsAnAttempt ==
    /\ (q_pc = "raised" /\ q_client) => Len(q_log) >= 1
    /\ w_pc = "raised" => Len(w_exc_log) >= 1

\* C39: every call of _post_ws eventually returns or raises, whatever the server sends
\* after auth_success, a stream of ping frames that never pauses for the read timeout
\* included.
C39_PostWsEnds == <>(w_pc \in {"returned", "raised"})

(***************************************************************************)
(* Properties of the litigation test's loop                                *)
(***************************************************************************)
\* C31: a card is never resumed once its signature has been seen more than StuckThreshold
\* times: the occurrence after that raises AssertionError before the resume, so at most
\* StuckThreshold resumes are sent for the cards of one signature.
C31_StuckCardRaisesBeforeResume ==
    /\ \A sig \in DOMAIN t_resumed : t_resumed[sig] <= StuckThreshold
    /\ \A sig \in DOMAIN t_counts :
           t_counts[sig] > StuckThreshold =>
               (t_pc = "assertion_error" /\ t_resumed[sig] = StuckThreshold)
    /\ t_pc = "resume" => t_counts[_card_sig(TestCards[t_pending])] <= StuckThreshold

\* C31 witness: the fourth occurrence of a signature, after three resumes of its cards, of
\* which both cards of that signature had a share, has raised
C31_FourthOccurrenceRaised ==
    /\ t_pc = "assertion_error"
    /\ t_pending = 2
    /\ t_counts[_card_sig(TestCards[1])] = StuckThreshold + 1
    /\ t_resumed[_card_sig(TestCards[1])] = StuckThreshold

(***************************************************************************)
(* Properties of the stream event checks                                   *)
(***************************************************************************)
\* the events of the stream, as sent
StreamEvents == Get(s_sse, "events").l

IsTaskEvent(e, event, node) ==
    /\ Get(e, "event") = Lit(event)
    /\ Get(Get(e, "data"), "node") = Lit(node)

\* a task_end for a node stands in the stream with no task_start for that node before it
EndBeforeStart ==
    \E j \in 1..Len(StreamEvents), node \in {"a", "b", "run_skill"} :
        /\ IsTaskEvent(StreamEvents[j], "task_end", node)
        /\ \A i \in 1..(j - 1) : ~IsTaskEvent(StreamEvents[i], "task_start", node)

\* C32: validate_task_events raises AssertionError for every event sequence that has a
\* task_end for a node with no task_start for that node earlier in the sequence.
C32_EndOnlyAfterStart ==
    (s_called = "validate_task_events" /\ EndBeforeStart) => s_pc = "assertion_error"

(***************************************************************************)
(* Properties of consume_pending_cards                                     *)
(***************************************************************************)
\* C33: at most max_cards resumes are sent, one per card counted in consumed (plus the
\* one that failed, if the call stopped on it); (consumed, False) is returned only when
\* the latest pending-card response was empty; unresolved is True whenever the call stops
\* on an empty answer set, on a resume that timed out, or with a card still pending after
\* max_cards resumes.
C33_ConsumeContract ==
    /\ Len(k_sent) <= k_max_cards
    /\ k_pc = "loop" => Len(k_sent) = k_consumed
    /\ k_pc = "resume_wait" => Len(k_sent) = k_consumed + 1
    /\ \A i \in 1..Len(k_sent) :
           /\ k_sent[i].payload = v4_auto_answer_card(k_sent[i].card, k_uploaded)
           /\ Get(k_sent[i].payload, "answers").l # <<>>
    /\ k_pc = "returned" =>
           /\ Len(k_sent) = k_consumed + (IF k_stop \in {"timeout", "runtime_error"} THEN 1 ELSE 0)
           /\ ~k_unresolved => ~(k_pending.t = "dict" /\ k_pending.d # <<>>)
           /\ k_stop \in {"no_answers", "timeout", "runtime_error"} => k_unresolved
           /\ (k_stop = "max_cards" /\ k_pending \in V4Cards) => k_unresolved
           /\ k_stop = "max_cards" => k_consumed = k_max_cards

\* C33 witness: max_cards resumes were consumed and a card is still pending
C33_StillPendingAfterMaxCards ==
    /\ k_pc = "returned"
    /\ k_stop = "max_cards"
    /\ k_max_cards = 2
    /\ k_consumed = 2
    /\ k_unresolved

====
